---- MODULE Spec2Model ----
(***************************************************************************)
(* Model of the fundamental-analysis engine of quant_screener.py.          *)
(*                                                                         *)
(* Representation                                                          *)
(*   date     a "YYYY-MM-DD" string is the integer YYYYMMDD; the order of  *)
(*            the integers is the lexicographic order of the strings.      *)
(*   float    an input value is an integer; an undefined value (NaN) is    *)
(*            the record NaN; a defined one is Num(x).  A quotient is kept *)
(*            exact as numerator and denominator (Rat).                    *)
(*   dict     a Python dict is the sequence of its [k, v] entries in       *)
(*            insertion order.                                             *)
(*   table    a DataFrame is the sequence of its rows; the empty DataFrame *)
(*            is << >>.                                                    *)
(*   label    an account label is a sequence of tokens; startswith is the  *)
(*            prefix relation on tokens and "kw in name" is token          *)
(*            membership.  The tokens are ASCII glosses of the Korean      *)
(*            labels of the source.                                        *)
(***************************************************************************)
EXTENDS Integers, Sequences, FiniteSets, TLC

VARIABLES pc, stored_df, series_dict, q_data, ind_df, fs_df, ind_grp, fs_grp,
          daily, shares_df, full_df, result,
          dashboard_result, batch_log, session, stocks, success_count

vars ==
    <<pc, stored_df, series_dict, q_data, ind_df, fs_df, ind_grp, fs_grp, daily,
      shares_df, full_df, result,
      dashboard_result, batch_log, session, stocks, success_count>>

-----------------------------------------------------------------------------
(* Bounds of the model.                                                    *)

\* number of fiscal years the annual series of the model span
NumYears == 4

\* number of quarter-end dates the quarterly YoY inputs span
NumQuartersYoy == 6

\* number of quarter-end dates the TTM inputs span
NumQuartersTtm == 9

-----------------------------------------------------------------------------
(* Floats.                                                                 *)

NaN == [nan |-> TRUE]

Num(x) == [nan |-> FALSE, v |-> x]

\* the exact quotient n / d, d > 0
Rat(n, d) == [nan |-> FALSE, n |-> n, d |-> d]

notna(x) == ~x.nan

isna(x) == x.nan

\* x > y for the quotients x and y
RatGT(x, y) == x.n * y.d > y.n * x.d

\* x - y for the quotients x and y
RatSub(x, y) == Rat(x.n * y.d - y.n * x.d, x.d * y.d)

RECURSIVE Gcd(_, _)
Gcd(a, b) == IF b = 0 THEN a ELSE Gcd(b, a % b)

Abs(x) == IF x < 0 THEN -x ELSE x

\* the quotient n / d in lowest terms with a positive denominator, d # 0
Quot(n, d) ==
    LET g == Gcd(Abs(n), Abs(d))
    IN  IF d < 0 THEN Rat((-n) \div g, (-d) \div g) ELSE Rat(n \div g, d \div g)

\* a defined float as a quotient in lowest terms; symbolic values are kept
AsRat(x) ==
    IF "v" \in DOMAIN x THEN Rat(x.v, 1)
    ELSE IF "n" \in DOMAIN x THEN Quot(x.n, x.d) ELSE x

RatAdd(x, y) == Quot(x.n * y.d + y.n * x.d, x.d * y.d)

RatMul(x, y) == Quot(x.n * y.n, x.d * y.d)

\* x / y for the quotients x and y, y # 0
RatDiv(x, y) == Quot(x.n * y.d, x.d * y.n)

\* float arithmetic: NaN in, NaN out
FAdd(x, y) == IF isna(x) \/ isna(y) THEN NaN ELSE RatAdd(AsRat(x), AsRat(y))

FSub(x, y) == IF isna(x) \/ isna(y) THEN NaN
              ELSE RatAdd(AsRat(x), RatMul(Rat(-1, 1), AsRat(y)))

FMul(x, y) == IF isna(x) \/ isna(y) THEN NaN ELSE RatMul(AsRat(x), AsRat(y))

\* x / y of floats; a positive x over 0 is +inf, held as the quotient 1 / 0
FDiv(x, y) ==
    IF isna(x) \/ isna(y) THEN NaN
    ELSE IF AsRat(y).n = 0
         THEN IF AsRat(x).n = 0 THEN NaN
              ELSE Rat(IF AsRat(x).n > 0 THEN 1 ELSE -1, 0)
         ELSE RatDiv(AsRat(x), AsRat(y))

\* float comparisons: False when either side is NaN
FGT(x, y) == notna(x) /\ notna(y) /\ RatGT(AsRat(x), AsRat(y))

FGE(x, y) == notna(x) /\ notna(y) /\ ~RatGT(AsRat(y), AsRat(x))

FLT(x, y) == FGT(y, x)

FLE(x, y) == FGE(y, x)

-----------------------------------------------------------------------------
(* Dates.                                                                  *)

Year(d) == d \div 10000

Month(d) == (d % 10000) \div 100

Day(d) == d % 100

IsLeap(y) == (y % 4 = 0 /\ y % 100 # 0) \/ y % 400 = 0

DaysBeforeMonth(y, m) ==
    LET cum == <<0, 31, 59, 90, 120, 151, 181, 212, 243, 273, 304, 334>>
    IN  cum[m] + (IF m > 2 /\ IsLeap(y) THEN 1 ELSE 0)

\* pd.Timestamp(date_str): the day number of the date (proleptic Gregorian)
Timestamp(d) ==
    LET y == Year(d) - 1
    IN  365 * y + (y \div 4) - (y \div 100) + (y \div 400)
          + DaysBeforeMonth(Year(d), Month(d)) + Day(d)

\* str(d).endswith("12-31")
IsAnnualDate(d) == d % 10000 = 1231

\* the quarter-end date that is i quarters after the first quarter of year y0
QuarterDate(y0, i) ==
    LET ends == <<331, 630, 930, 1231>>
    IN  (y0 + (i \div 4)) * 10000 + ends[(i % 4) + 1]

-----------------------------------------------------------------------------
(* Sequences, sets and dicts.                                              *)

Min(S) == CHOOSE x \in S : \A y \in S : x <= y

Max(S) == CHOOSE x \in S : \A y \in S : x >= y

RECURSIVE SortedSeq(_)
\* sorted(S) for a set of integers
SortedSeq(S) ==
    IF S = {} THEN << >> ELSE <<Min(S)>> \o SortedSeq(S \ {Min(S)})

RECURSIVE SumSeq(_)
SumSeq(s) == IF s = << >> THEN 0 ELSE Head(s) + SumSeq(Tail(s))

\* s[-n:]
LastN(s, n) == IF Len(s) <= n THEN s ELSE SubSeq(s, Len(s) - n + 1, Len(s))

DictKeys(d) == {d[i].k : i \in DOMAIN d}

DictHas(d, k) == k \in DictKeys(d)

\* d[k]
DictGet(d, k) == d[CHOOSE i \in DOMAIN d : d[i].k = k].v

\* d[k] = v
DictPut(d, k, v) ==
    IF DictHas(d, k)
    THEN [i \in DOMAIN d |-> IF d[i].k = k THEN [k |-> k, v |-> v] ELSE d[i]]
    ELSE Append(d, [k |-> k, v |-> v])

\* list(d.values())
DictValues(d) == [i \in DOMAIN d |-> d[i].v]

\* the dict of the function f, entered in ascending key order
DictOf(f) ==
    LET ks == SortedSeq(DOMAIN f)
    IN  [i \in DOMAIN ks |-> [k |-> ks[i], v |-> f[ks[i]]]]

\* the partial functions from D to V
PartialFns(D, V) == UNION {[S -> V] : S \in SUBSET D}

\* reversed(s)
Reverse(s) == [i \in DOMAIN s |-> s[Len(s) + 1 - i]]

\* s startswith p, for sequences of tokens
StartsWith(s, p) == Len(p) <= Len(s) /\ SubSeq(s, 1, Len(p)) = p

\* the set of the elements of the sequence s
Range(s) == {s[i] : i \in DOMAIN s}

-----------------------------------------------------------------------------
(* Account labels.  Tokens gloss the Korean labels of the source:          *)
(*   rev = 매출액, oprev = 영업수익, intrev = 이자수익, premrev = 보험료수익,       *)
(*   netoprev = 순영업수익, opinc = 영업이익, ctrl_ni = 지배주주순이익,            *)
(*   ni = 당기순이익, equity = 자본, total = 총계, ctrl_eq = 지배주주지분,         *)
(*   ctrlco_eq = 지배기업주주지분, debt = 부채, dps = 주당배당금,                  *)
(*   opact = 영업활동, from = 으로인한, cashflow = 현금흐름, invact = 투자활동,     *)
(*   ppe = 유형자산, of = 의, acq = 취득, assets = 자산, curassets = 유동자산,     *)
(*   curliab = 유동부채, grossprofit = 매출총이익.                              *)
(* Keys: Revenue = 매출액, OpIncome = 영업이익, NetIncome = 순이익,              *)
(*   Equity = 자본, Debt = 부채, Dividend = 배당금, OpCF = 영업CF,              *)
(*   InvCF = 투자CF, CAPEX, TotalAssets = 자산총계, CurAssets = 유동자산,        *)
(*   CurLiab = 유동부채, GrossProfit = 매출총이익.                              *)

EXACT_ACCOUNTS ==
    [Revenue     |-> << <<"rev">>, <<"oprev">>, <<"intrev">>, <<"premrev">>,
                        <<"netoprev">> >>,
     OpIncome    |-> << <<"opinc">> >>,
     NetIncome   |-> << <<"ctrl_ni">>, <<"ni">> >>,
     Equity      |-> << <<"equity">>, <<"equity", "total">>, <<"ctrl_eq">>,
                        <<"ctrlco_eq">> >>,
     Debt        |-> << <<"debt">>, <<"debt", "total">> >>,
     Dividend    |-> << <<"dps">> >>,
     OpCF        |-> << <<"opact", "cashflow">>,
                        <<"opact", "from", "cashflow">> >>,
     InvCF       |-> << <<"invact", "cashflow">>,
                        <<"invact", "from", "cashflow">> >>,
     CAPEX       |-> << <<"ppe", "of", "acq">>, <<"ppe", "acq">> >>,
     TotalAssets |-> << <<"assets", "total">>, <<"assets">> >>,
     CurAssets   |-> << <<"curassets">> >>,
     CurLiab     |-> << <<"curliab">> >>,
     GrossProfit |-> << <<"grossprofit">> >>]

\* growth_rate = 증가율, (-1Y), (avg) = (평균), rate( = 률(, ratio = 비율,
\* multiple = 배율, (-1A, (-1Q, /adj_avg = / 수정평균
EXCLUDE_KEYWORDS ==
    <<"growth_rate", "(-1Y)", "(avg)", "rate(", "ratio", "multiple", "(-1A",
      "(-1Q", "/adj_avg">>

\* _should_exclude that excludes no label
_should_exclude_never(account_name) == FALSE

_should_exclude(account_name) ==
    \E i \in DOMAIN EXCLUDE_KEYWORDS :
        EXCLUDE_KEYWORDS[i] \in Range(account_name)

\* date_filter = None
NoFilter == [none |-> TRUE]

\* date_filter = dates
OnDates(dates) == [none |-> FALSE, dates |-> dates]

RECURSIVE drop_duplicates(_)
\* df.drop_duplicates(["code", "date"], keep="first")
drop_duplicates(t) ==
    IF t = << >> THEN << >>
    ELSE LET init == SubSeq(t, 1, Len(t) - 1)
             last == t[Len(t)]
         IN  IF \E i \in DOMAIN init :
                    init[i].code = last.code /\ init[i].date = last.date
             THEN drop_duplicates(init)
             ELSE Append(drop_duplicates(init), last)

RECURSIVE RowsToDict(_)
\* the loop over matched.iterrows(): result[date] = value unless the value is NaN
RowsToDict(t) ==
    IF t = << >> THEN << >>
    ELSE LET init == RowsToDict(SubSeq(t, 1, Len(t) - 1))
             r    == t[Len(t)]
         IN  IF notna(r.value) THEN DictPut(init, r.date, r.value.v) ELSE init

find_account_value(df, target_key, date_filter) ==
    IF df = << >> THEN << >>
    ELSE
      LET targets == EXACT_ACCOUNTS[target_key]
          InFilter(r) == date_filter.none \/ r.date \in date_filter.dates
          work == SelectSeq(df, InFilter)
          IsExact(r) == r.account \in Range(targets)
          exact == SelectSeq(work, IsExact)
          _startswith_any(r) ==
              \E i \in DOMAIN targets :
                  StartsWith(r.account, targets[i]) /\ ~_should_exclude(r.account)
          matched == IF exact = << >> THEN SelectSeq(work, _startswith_any)
                     ELSE exact
      IN  IF matched = << >> THEN << >>
          ELSE RowsToDict(drop_duplicates(matched))

-----------------------------------------------------------------------------
(* Preprocessing and unit detection.                                       *)
(*                                                                         *)
(* The monetary values of the indicator table of the unit-detection        *)
(* specification are multiples of 500,000 won: the row value x stands for  *)
(* the float x * 5e5, so that 3.0e14 is 600,000,000.                       *)

\* x * 5e5 > 10^k, for the thresholds k = 5, 8, 14 of the code
GtPow10(x, k) == IF k = 5 THEN 5 * x > 1 ELSE x > 2 * 10 ^ (k - 6)

\* UnitOf with >= for the first threshold
UnitOf_ge(latest_rev) ==
    IF GtPow10(latest_rev, 14) \/ latest_rev = 2 * 10 ^ 8 THEN 1
    ELSE IF GtPow10(latest_rev, 8) THEN 1000000
    ELSE IF GtPow10(latest_rev, 5) THEN 100000000
    ELSE 100000000

\* UnitOf with the second threshold at 1e12
UnitOf_shift(latest_rev) ==
    IF GtPow10(latest_rev, 14) THEN 1
    ELSE IF GtPow10(latest_rev, 12) THEN 1000000
    ELSE IF GtPow10(latest_rev, 5) THEN 100000000
    ELSE 100000000

\* the multiplier chosen for the compared revenue figure
UnitOf(latest_rev) ==
    IF GtPow10(latest_rev, 14) THEN 1
    ELSE IF GtPow10(latest_rev, 8) THEN 1000000
    ELSE IF GtPow10(latest_rev, 5) THEN 100000000
    ELSE 100000000

\* {d: v for d, v in rev_dict.items() if d.endswith("12-31")}
AnnualEntries(d) == SelectSeq(d, LAMBDA e : IsAnnualDate(e.k))

\* The multiplier, and the revenue figure compared against the thresholds
\* (NaN on the early returns, where none is compared).
detect_unit_multiplier(df) ==
    LET sam == SelectSeq(df, LAMBDA r : r.code = "005930")
    IN
    IF sam = << >> THEN [latest_rev |-> NaN, multiplier |-> 100000000]
    ELSE
      LET sam_y == SelectSeq(sam, LAMBDA r : r.group = "RATIO_Y")
          rev_dict == find_account_value(sam_y, "Revenue", NoFilter)
      IN  IF rev_dict = << >>
          THEN [latest_rev |-> NaN, multiplier |-> 100000000]
          ELSE
            LET annual == AnnualEntries(rev_dict)
                annual_revs == IF annual = << >> THEN rev_dict ELSE annual
                latest_rev == Max(Range(DictValues(annual_revs)))
            IN  [latest_rev |-> Num(latest_rev),
                 multiplier |-> UnitOf(latest_rev)]

-----------------------------------------------------------------------------
(* Growth and trend utilities.                                             *)

\* The float ((v1 / v0) ** (1 / years) - 1) * 100 with years = days / 365.25,
\* kept as the three numbers that determine it.
CagrValue(v0, v1, days) == [nan |-> FALSE, v0 |-> v0, v1 |-> v1, days |-> days]

\* the float is a symbolic CAGR
IsCagr(x) == "days" \in DOMAIN x

\* a defined CAGR (symbolic, or a number) is > 0
CagrPositive(x) == IF IsCagr(x) THEN x.v1 > x.v0 ELSE AsRat(x).n > 0

\* years < 0.5 for years = days / 365.25
YearsBelowHalf(days) == 8 * days < 1461

\* calc_cagr with 0 returned, instead of NaN, for a non-positive end value
calc_cagr_zero(sd, min_years) ==
    IF Len(sd) < min_years THEN NaN
    ELSE
      LET dates == SortedSeq(DictKeys(sd))
          v0 == DictGet(sd, dates[1])
          v1 == DictGet(sd, dates[Len(dates)])
          days == Timestamp(dates[Len(dates)]) - Timestamp(dates[1])
      IN  IF v0 <= 0 \/ v1 <= 0 THEN Num(0)
          ELSE IF YearsBelowHalf(days) THEN NaN
          ELSE CagrValue(v0, v1, days)

calc_cagr(sd, min_years) ==
    IF Len(sd) < min_years THEN NaN
    ELSE
      LET dates == SortedSeq(DictKeys(sd))
          v0 == DictGet(sd, dates[1])
          v1 == DictGet(sd, dates[Len(dates)])
          days == Timestamp(dates[Len(dates)]) - Timestamp(dates[1])
      IN  IF v0 <= 0 \/ v1 <= 0 THEN NaN
          ELSE IF YearsBelowHalf(days) THEN NaN
          ELSE CagrValue(v0, v1, days)

\* the step vals[i - 1] -> vals[i] counts
GrowthStep(prev, curr) == curr > prev /\ prev > 0

RECURSIVE GrowthLoop(_, _, _)
\* the loop "for i in range(len(vals) - 1, 0, -1)" from index i (1-based: the
\* step vals[i - 1] -> vals[i]) with the count so far
GrowthLoop(vals, i, count) ==
    IF i < 2 THEN count
    ELSE IF GrowthStep(vals[i - 1], vals[i])
         THEN GrowthLoop(vals, i - 1, count + 1)
         ELSE count

\* count_consecutive_growth that skips a failing step instead of stopping
count_consecutive_growth_skip(sd) ==
    IF Len(sd) < 2 THEN 0
    ELSE
      LET dates == SortedSeq(DictKeys(sd))
          vals  == [i \in DOMAIN dates |-> DictGet(sd, dates[i])]
      IN  Cardinality({i \in 2..Len(vals) : GrowthStep(vals[i - 1], vals[i])})

count_consecutive_growth(sd) ==
    IF Len(sd) < 2 THEN 0
    ELSE
      LET dates == SortedSeq(DictKeys(sd))
          vals  == [i \in DOMAIN dates |-> DictGet(sd, dates[i])]
      IN  GrowthLoop(vals, Len(vals), 0)

-----------------------------------------------------------------------------
(* Quarterly year-over-year and trailing-twelve-month utilities.           *)

\* the empty string, as a date
NoDate == 0

_prev_year_date(date_str) == date_str - 10000

\* sorted(df["date"].unique())
UniqueDates(df) == SortedSeq({df[i].date : i \in DOMAIN df})

\* ((curr_val / prev_val) - 1) * 100 for prev_val > 0
PctChange(curr_val, prev_val) == Rat((curr_val - prev_val) * 100, prev_val)

\* x > 0 for the float x (False for NaN)
Positive(x) == notna(x) /\ x.n > 0

\* YoyEntry with a percentage computed for the sign-flip case too
YoyEntry_signflip(prev_val, curr_val) ==
    IF prev_val > 0
    THEN [has |-> TRUE, value |-> PctChange(curr_val, prev_val)]
    ELSE IF prev_val < 0 /\ curr_val > 0
    THEN [has |-> TRUE, value |-> Rat((curr_val - prev_val) * 100, -prev_val)]
    ELSE [has |-> FALSE]

\* the entry the YoY loop makes for one quarter whose prior-year quarter has
\* a value: a percentage, NaN for a loss turned into a profit, or no entry
YoyEntry(prev_val, curr_val) ==
    IF prev_val > 0
    THEN [has |-> TRUE, value |-> PctChange(curr_val, prev_val)]
    ELSE IF prev_val < 0 /\ curr_val > 0
    THEN [has |-> TRUE, value |-> NaN]
    ELSE [has |-> FALSE]

RECURSIVE YoyLoop(_, _)
\* the loop "for date_str in sorted(vals.keys())" over the dates ds
YoyLoop(vals, ds) ==
    IF ds = << >> THEN << >>
    ELSE LET init == YoyLoop(vals, SubSeq(ds, 1, Len(ds) - 1))
             date_str == ds[Len(ds)]
             prev_date == _prev_year_date(date_str)
         IN  IF DictHas(vals, prev_date)
             THEN LET e == YoyEntry(DictGet(vals, prev_date),
                                    DictGet(vals, date_str))
                  IN  IF e.has THEN DictPut(init, date_str, e.value) ELSE init
             ELSE init

RECURSIVE YoyCountLoop(_, _, _)
\* the loop "for d in sorted_dates" (descending) with the count so far
YoyCountLoop(yoy_series, ds, count) ==
    IF ds = << >> THEN count
    ELSE IF Positive(DictGet(yoy_series, Head(ds)))
         THEN YoyCountLoop(yoy_series, Tail(ds), count + 1)
         ELSE count

EmptyYoyResult ==
    [latest_yoy |-> NaN, consecutive_yoy_growth |-> 0,
     latest_quarter |-> NoDate, yoy_series |-> << >>]

calc_quarterly_yoy(qd, key) ==
    IF Len(UniqueDates(qd)) < 5 THEN EmptyYoyResult
    ELSE
      LET vals == find_account_value(qd, key, NoFilter)
      IN  IF Len(vals) < 5 THEN EmptyYoyResult
          ELSE
            LET yoy_series == YoyLoop(vals, SortedSeq(DictKeys(vals)))
            IN  IF yoy_series = << >> THEN EmptyYoyResult
                ELSE
                  LET latest_quarter == Max(DictKeys(yoy_series))
                      sorted_dates == Reverse(SortedSeq(DictKeys(yoy_series)))
                  IN  [latest_yoy |-> DictGet(yoy_series, latest_quarter),
                       consecutive_yoy_growth |->
                           YoyCountLoop(yoy_series, sorted_dates, 0),
                       latest_quarter |-> latest_quarter,
                       yoy_series |-> yoy_series]

\* sum(vals[d] for d in ds if d in vals)
SumOn(vals, ds) ==
    SumSeq([i \in DOMAIN ds |->
               IF DictHas(vals, ds[i]) THEN DictGet(vals, ds[i]) ELSE 0])

\* len([d for d in ds if d in vals])
CountOn(vals, ds) == Cardinality({i \in DOMAIN ds : DictHas(vals, ds[i])})

\* calc_ttm_yoy that accepts 4 quarters and sums whatever it finds
calc_ttm_yoy_partial(qd, key) ==
    LET vals == find_account_value(qd, key, NoFilter)
        sorted_dates == SortedSeq(DictKeys(vals))
        last4 == LastN(sorted_dates, 4)
        prev4 == SubSeq(sorted_dates, 1, Len(sorted_dates) - Len(last4))
        ttm_current == IF last4 = << >> THEN NaN ELSE Num(SumOn(vals, last4))
        ttm_prev == IF prev4 = << >> THEN NaN
                    ELSE Num(SumOn(vals, LastN(prev4, 4)))
    IN  [ttm_current |-> ttm_current, ttm_prev |-> ttm_prev,
         ttm_yoy |-> IF notna(ttm_current) /\ notna(ttm_prev) /\ ttm_prev.v > 0
                     THEN PctChange(ttm_current.v, ttm_prev.v) ELSE NaN]

calc_ttm_yoy(qd, key) ==
    LET empty == [ttm_current |-> NaN, ttm_prev |-> NaN, ttm_yoy |-> NaN]
    IN
    IF Len(UniqueDates(qd)) < 8 THEN empty
    ELSE
      LET vals == find_account_value(qd, key, NoFilter)
      IN  IF Len(vals) < 8 THEN empty
          ELSE
            LET sorted_dates == SortedSeq(DictKeys(vals))
                last4 == LastN(sorted_dates, 4)
                prev4 == SubSeq(sorted_dates, Len(sorted_dates) - 7,
                                Len(sorted_dates) - 4)
                ttm_current == IF CountOn(vals, last4) = 4
                               THEN Num(SumOn(vals, last4)) ELSE NaN
                ttm_prev == IF CountOn(vals, prev4) = 4
                            THEN Num(SumOn(vals, prev4)) ELSE NaN
            IN  [ttm_current |-> ttm_current, ttm_prev |-> ttm_prev,
                 ttm_yoy |->
                     IF notna(ttm_current) /\ notna(ttm_prev) /\ ttm_prev.v > 0
                     THEN PctChange(ttm_current.v, ttm_prev.v) ELSE NaN]

-----------------------------------------------------------------------------
(* Per-stock analysis.                                                     *)
(*                                                                         *)
(* Fields of the analysis record, with the column of the source:           *)
(*   code 종목코드, TTM_rev TTM_매출, TTM_op TTM_영업이익, TTM_ni TTM_순이익,        *)
(*   TTM_source TTM_소스 ("yes" 있음, "none" 없음), Q_x_YoY Q_x_YoY(%),           *)
(*   Q_x_consec Q_x_연속YoY성장, TTM_x_YoY TTM_x_YoY(%), latest_quarter 최근분기,  *)
(*   equity 자본, debt 부채, total_assets 자산총계, x_CAGR, x_consec x_연속성장,     *)
(*   data_years 데이터_연수, opm_latest 영업이익률_최근, opm_prev 영업이익률_전년,     *)
(*   margin_improved 이익률_개선, margin_delta 이익률_변동폭,                       *)
(*   margin_sharp 이익률_급개선, ni_prev_negative 순이익_전년음수,                   *)
(*   ni_curr_positive 순이익_당기양수, turnaround 흑자전환, TTM_OCF TTM_영업CF,      *)
(*   TTM_CAPEX, TTM_FCF, OCF_CAGR 영업CF_CAGR, FCF_CAGR, OCF_consec            *)
(*   영업CF_연속성장, F_score F스코어, F1 .. F9, DPS_latest DPS_최근, DPS_CAGR,      *)
(*   DPS_consec 배당_연속증가, div_earnings_growth 배당_수익동반증가.                *)

\* a financial-statement row; period is the frequency ("y" or "q")
FsRow(code, date, account, period, value) ==
    [code |-> code, date |-> date, account |-> account, period |-> period,
     value |-> value]

\* ind_grp[ind_grp["group"] == g]
GroupRows(ind, g) == SelectSeq(ind, LAMBDA r : r.group = g)

\* fs_grp[fs_grp["period"] == "y"]
AnnualFs(fs) == SelectSeq(fs, LAMBDA r : r.period = "y")

\* [d for d in sorted(t["date"].unique()) if str(d).endswith("12-31")]
AnnualDatesOf(t) == SelectSeq(UniqueDates(t), IsAnnualDate)

\* t[t["date"].isin(ds)]
OnDateSet(t, ds) == SelectSeq(t, LAMBDA r : r.date \in ds)

\* d[max(d.keys())]
LatestOf(d) == DictGet(d, Max(DictKeys(d)))

\* d[max(d.keys())] if d else NaN
LatestOrNaN(d) == IF d = << >> THEN NaN ELSE Num(LatestOf(d))

\* the value of d at its i-th latest key: d[sorted(d.keys())[-i]]
AtBack(d, i) ==
    LET ks == SortedSeq(DictKeys(d)) IN DictGet(d, ks[Len(ks) + 1 - i])

\* d.get(k, 0)
GetOr0(d, k) == IF DictHas(d, k) THEN DictGet(d, k) ELSE 0

\* TtmFigure with the sum of whatever quarters of the last four have a value
TtmFigure_partial(ind, key) ==
    LET yd == GroupRows(ind, "RATIO_Y")
        qd == GroupRows(ind, "RATIO_Q")
        annual_dates == AnnualDatesOf(yd)
        q_dates == UniqueDates(qd)
        last4q == IF Len(q_dates) >= 4 THEN LastN(q_dates, 4) ELSE << >>
        dq == find_account_value(OnDateSet(qd, Range(last4q)), key, NoFilter)
        val == IF last4q # << >> /\ Len(dq) >= 1
               THEN Num(SumSeq(DictValues(dq))) ELSE NaN
        dy == find_account_value(yd, key, OnDates(Range(annual_dates)))
    IN  IF isna(val) /\ annual_dates # << >> /\ dy # << >>
        THEN Num(LatestOf(dy)) ELSE val

\* one pass of the TTM loop: the TTM figure of one account
TtmFigure(ind, key) ==
    LET yd == GroupRows(ind, "RATIO_Y")
        qd == GroupRows(ind, "RATIO_Q")
        annual_dates == AnnualDatesOf(yd)
        q_dates == UniqueDates(qd)
        last4q == IF Len(q_dates) >= 4 THEN LastN(q_dates, 4) ELSE << >>
        dq == find_account_value(OnDateSet(qd, Range(last4q)), key, NoFilter)
        val == IF last4q # << >> /\ Len(dq) >= 4
               THEN Num(SumSeq(DictValues(dq))) ELSE NaN
        dy == find_account_value(yd, key, OnDates(Range(annual_dates)))
    IN  IF isna(val) /\ annual_dates # << >> /\ dy # << >>
        THEN Num(LatestOf(dy)) ELSE val

\* n / d if d > 0 else 0
RatioOr0(n, d) == IF d > 0 THEN Rat(n, d) ELSE Rat(0, 1)

\* n / d * 100 if d > 0 else NaN
PctOrNaN(n, d) == IF d > 0 THEN Rat(n * 100, d) ELSE NaN

\* F1_profit granting the point when net income is absent
F1_profit_missing(ttm_ni) == IF isna(ttm_ni) \/ ttm_ni.v > 0 THEN 1 ELSE 0

F1_profit(ttm_ni) == IF notna(ttm_ni) /\ ttm_ni.v > 0 THEN 1 ELSE 0

F2_opcf(ttm_ocf) == IF notna(ttm_ocf) /\ ttm_ocf.v > 0 THEN 1 ELSE 0

\* F3_roa scored by the number of improving figures instead of a flag
F3_roa_count(ni_series, ta_series) ==
    IF Len(ni_series) >= 2 /\ Len(ta_series) >= 2
    THEN (IF AtBack(ni_series, 1) > AtBack(ni_series, 2) THEN 1 ELSE 0)
         + (IF RatGT(RatioOr0(AtBack(ni_series, 1), AtBack(ta_series, 1)),
                     RatioOr0(AtBack(ni_series, 2), AtBack(ta_series, 2)))
            THEN 1 ELSE 0)
    ELSE 0

F3_roa(ni_series, ta_series) ==
    IF Len(ni_series) >= 2 /\ Len(ta_series) >= 2
    THEN IF RatGT(RatioOr0(AtBack(ni_series, 1), AtBack(ta_series, 1)),
                  RatioOr0(AtBack(ni_series, 2), AtBack(ta_series, 2)))
         THEN 1 ELSE 0
    ELSE 0

F4_quality(ttm_ocf, ttm_ni) ==
    IF notna(ttm_ocf) /\ notna(ttm_ni) /\ ttm_ni.v > 0 /\ ttm_ocf.v > ttm_ni.v
    THEN 1 ELSE 0

\* F5, F6, F8 and F9: the trend of num / den over the two latest keys of each
\* series, 1 when the ratio moved in the wanted direction; both denominators
\* must be positive
TrendFlag(num, den, wantHigher) ==
    IF Len(num) >= 2 /\ Len(den) >= 2
    THEN IF AtBack(den, 1) > 0 /\ AtBack(den, 2) > 0
         THEN LET curr == Rat(AtBack(num, 1), AtBack(den, 1))
                  prev == Rat(AtBack(num, 2), AtBack(den, 2))
              IN  IF (IF wantHigher THEN RatGT(curr, prev) ELSE RatGT(prev, curr))
                  THEN 1 ELSE 0
         ELSE 0
    ELSE 0

\* TurnaroundFlag raised by any rise of net income
TurnaroundFlag_rise(ni_series) ==
    IF Len(ni_series) >= 2
    THEN IF AtBack(ni_series, 1) > AtBack(ni_series, 2) /\ AtBack(ni_series, 1) > 0
         THEN 1 ELSE 0
    ELSE 0

\* lines 494-502: a loss in the year before the latest and a profit in the
\* latest year
TurnaroundFlag(ni_series) ==
    IF Len(ni_series) >= 2
    THEN IF AtBack(ni_series, 2) < 0 /\ AtBack(ni_series, 1) > 0 THEN 1 ELSE 0
    ELSE 0

\* CapexMagnitude keeping the sign of the source
CapexMagnitude_signed(v) == v

\* abs(v) of a capex value
CapexMagnitude(v) == IF v < 0 THEN -v ELSE v

analyze_one_stock(ticker, ind, fs) ==
    LET has_ind == ind # << >>
        has_fs == fs # << >>
        yd == GroupRows(ind, "RATIO_Y")
        qd == GroupRows(ind, "RATIO_Q")
        fs_y == AnnualFs(fs)
        annual_dates == AnnualDatesOf(yd)
        annual == OnDates(Range(annual_dates))
        \* TTM
        ttm_rev == IF has_ind THEN TtmFigure(ind, "Revenue") ELSE NaN
        ttm_op == IF has_ind THEN TtmFigure(ind, "OpIncome") ELSE NaN
        ttm_ni == IF has_ind THEN TtmFigure(ind, "NetIncome") ELSE NaN
        \* quarterly YoY and TTM YoY
        qyoy(key) == IF has_ind THEN calc_quarterly_yoy(qd, key)
                     ELSE EmptyYoyResult
        tyoy(key) == IF has_ind THEN calc_ttm_yoy(qd, key).ttm_yoy ELSE NaN
        q_dates_sorted == UniqueDates(qd)
        \* equity and liabilities
        last_dt == Max({fs[i].date : i \in DOMAIN fs})
        bs_last == SelectSeq(fs, LAMBDA r : r.date = last_dt)
        e_fs == IF has_fs THEN find_account_value(bs_last, "Equity", NoFilter)
                ELSE << >>
        d_fs == IF has_fs THEN find_account_value(bs_last, "Debt", NoFilter)
                ELSE << >>
        equity_fs == IF e_fs # << >> THEN Num(DictValues(e_fs)[1]) ELSE NaN
        debt_fs == IF d_fs # << >> THEN Num(DictValues(d_fs)[1]) ELSE NaN
        use_ind == isna(equity_fs) /\ has_ind
        e_ind == find_account_value(yd, "Equity", NoFilter)
        d_ind == find_account_value(yd, "Debt", NoFilter)
        curr_equity == IF use_ind /\ e_ind # << >> THEN Num(LatestOf(e_ind))
                       ELSE equity_fs
        curr_debt == IF use_ind /\ d_ind # << >> THEN Num(LatestOf(d_ind))
                     ELSE debt_fs
        \* balance-sheet and income series of the F-score
        ta_fs == IF has_fs THEN find_account_value(fs_y, "TotalAssets", NoFilter)
                 ELSE << >>
        current_assets_series ==
            IF has_fs THEN find_account_value(fs_y, "CurAssets", NoFilter)
            ELSE << >>
        current_liab_series ==
            IF has_fs THEN find_account_value(fs_y, "CurLiab", NoFilter)
            ELSE << >>
        gross_profit_series ==
            IF has_fs THEN find_account_value(fs_y, "GrossProfit", NoFilter)
            ELSE << >>
        debt_fs_series == IF has_fs THEN find_account_value(fs_y, "Debt", NoFilter)
                          ELSE << >>
        equity_fs_series ==
            IF has_fs THEN find_account_value(fs_y, "Equity", NoFilter)
            ELSE << >>
        total_assets_series ==
            IF ta_fs = << >> /\ has_ind
            THEN find_account_value(yd, "TotalAssets", NoFilter) ELSE ta_fs
        debt_series ==
            IF debt_fs_series = << >> /\ has_ind
            THEN find_account_value(yd, "Debt", NoFilter) ELSE debt_fs_series
        equity_series ==
            IF debt_fs_series = << >> /\ has_ind
            THEN find_account_value(yd, "Equity", NoFilter) ELSE equity_fs_series
        \* growth
        grow == has_ind /\ Len(annual_dates) >= 2
        rev_series == IF grow THEN find_account_value(yd, "Revenue", annual)
                      ELSE << >>
        op_series == IF grow THEN find_account_value(yd, "OpIncome", annual)
                     ELSE << >>
        ni_series == IF grow THEN find_account_value(yd, "NetIncome", annual)
                     ELSE << >>
        \* margins
        margins == Len(rev_series) >= 2 /\ Len(op_series) >= 2
        latest == SortedSeq(DictKeys(rev_series))[Len(rev_series)]
        prev == SortedSeq(DictKeys(rev_series))[Len(rev_series) - 1]
        opm_l == IF margins
                 THEN PctOrNaN(GetOr0(op_series, latest), DictGet(rev_series, latest))
                 ELSE NaN
        opm_p == IF margins
                 THEN PctOrNaN(GetOr0(op_series, prev), DictGet(rev_series, prev))
                 ELSE NaN
        both == margins /\ notna(opm_l) /\ notna(opm_p)
        delta == IF both THEN RatSub(opm_l, opm_p) ELSE NaN
        \* turnaround
        two_ni == Len(ni_series) >= 2
        \* cash flows
        ocf_ind == IF has_ind THEN find_account_value(yd, "OpCF", annual) ELSE << >>
        capex_ind == IF has_ind THEN find_account_value(yd, "CAPEX", annual)
                     ELSE << >>
        ocf_series == IF ocf_ind = << >> /\ has_fs
                      THEN find_account_value(fs_y, "OpCF", NoFilter) ELSE ocf_ind
        capex_raw == IF capex_ind = << >> /\ has_fs
                     THEN find_account_value(fs_y, "CAPEX", NoFilter) ELSE capex_ind
        capex_series ==
            [i \in DOMAIN capex_raw |->
                [k |-> capex_raw[i].k, v |-> CapexMagnitude(capex_raw[i].v)]]
        common_dates == DictKeys(ocf_series) \cap DictKeys(capex_series)
        fcf_series ==
            LET ds == SortedSeq(common_dates)
            IN  [i \in DOMAIN ds |->
                    [k |-> ds[i],
                     v |-> DictGet(ocf_series, ds[i]) - DictGet(capex_series, ds[i])]]
        ttm_ocf == LatestOrNaN(ocf_series)
        \* F-score
        f1 == F1_profit(ttm_ni)
        f2 == F2_opcf(ttm_ocf)
        f3 == F3_roa(ni_series, total_assets_series)
        f4 == F4_quality(ttm_ocf, ttm_ni)
        f5 == TrendFlag(debt_series, equity_series, FALSE)
        f6 == TrendFlag(current_assets_series, current_liab_series, TRUE)
        f7 == 0
        f8 == TrendFlag(gross_profit_series, rev_series, TRUE)
        f9 == TrendFlag(rev_series, total_assets_series, TRUE)
        \* dividends
        dps_data == GroupRows(ind, "DPS")
        annual_dps == AnnualDatesOf(dps_data)
        dps_series ==
            IF has_ind /\ annual_dps # << >>
            THEN find_account_value(dps_data, "Dividend", OnDates(Range(annual_dps)))
            ELSE << >>
    IN  [code |-> ticker,
         TTM_rev |-> ttm_rev, TTM_op |-> ttm_op, TTM_ni |-> ttm_ni,
         TTM_source |-> IF has_ind /\ notna(ttm_rev) THEN "yes" ELSE "none",
         Q_rev_YoY |-> qyoy("Revenue").latest_yoy,
         Q_rev_consec |-> qyoy("Revenue").consecutive_yoy_growth,
         TTM_rev_YoY |-> tyoy("Revenue"),
         Q_op_YoY |-> qyoy("OpIncome").latest_yoy,
         Q_op_consec |-> qyoy("OpIncome").consecutive_yoy_growth,
         TTM_op_YoY |-> tyoy("OpIncome"),
         Q_ni_YoY |-> qyoy("NetIncome").latest_yoy,
         Q_ni_consec |-> qyoy("NetIncome").consecutive_yoy_growth,
         TTM_ni_YoY |-> tyoy("NetIncome"),
         latest_quarter |->
             IF has_ind /\ q_dates_sorted # << >>
             THEN q_dates_sorted[Len(q_dates_sorted)] ELSE NoDate,
         equity |-> curr_equity, debt |-> curr_debt,
         total_assets |-> LatestOrNaN(total_assets_series),
         rev_CAGR |-> calc_cagr(rev_series, 2),
         op_CAGR |-> calc_cagr(op_series, 2),
         ni_CAGR |-> calc_cagr(ni_series, 2),
         rev_consec |-> count_consecutive_growth(rev_series),
         op_consec |-> count_consecutive_growth(op_series),
         ni_consec |-> count_consecutive_growth(ni_series),
         data_years |-> Len(rev_series),
         opm_latest |-> opm_l, opm_prev |-> opm_p,
         margin_improved |-> IF both /\ RatGT(opm_l, opm_p) THEN 1 ELSE 0,
         margin_delta |-> delta,
         margin_sharp |-> IF both /\ delta.n >= 5 * delta.d THEN 1 ELSE 0,
         ni_prev_negative |-> IF two_ni /\ AtBack(ni_series, 2) < 0 THEN 1 ELSE 0,
         ni_curr_positive |-> IF two_ni /\ AtBack(ni_series, 1) > 0 THEN 1 ELSE 0,
         turnaround |-> TurnaroundFlag(ni_series),
         TTM_OCF |-> ttm_ocf,
         TTM_CAPEX |-> LatestOrNaN(capex_series),
         TTM_FCF |-> LatestOrNaN(fcf_series),
         OCF_CAGR |-> calc_cagr(ocf_series, 2),
         FCF_CAGR |-> calc_cagr(fcf_series, 2),
         OCF_consec |-> count_consecutive_growth(ocf_series),
         F_score |-> f1 + f2 + f3 + f4 + f5 + f6 + f7 + f8 + f9,
         F1 |-> f1, F2 |-> f2, F3 |-> f3, F4 |-> f4, F5 |-> f5, F6 |-> f6,
         F7 |-> f7, F8 |-> f8, F9 |-> f9,
         DPS_latest |-> IF dps_series # << >>
                        THEN Num(DictValues(dps_series)[Len(dps_series)]) ELSE NaN,
         DPS_CAGR |-> calc_cagr(dps_series, 2),
         DPS_consec |-> count_consecutive_growth(dps_series),
         div_earnings_growth |->
             IF count_consecutive_growth(ni_series) >= 2
                /\ count_consecutive_growth(dps_series) >= 1 THEN 1 ELSE 0]

-----------------------------------------------------------------------------
(* Valuation.                                                              *)
(*                                                                         *)
(* Fields of a row of the daily table: code 종목코드, name 종목명, close 종가,     *)
(* mktcap 시가총액, shares 상장주식수.  Fields of a row of the share-count        *)
(* table: code 종목코드, date 기준일, issued 발행주식수.                           *)
(* Market caps are in units of 1e8 won and share counts in units of 1e8    *)
(* shares, so that fundamental amounts times multiplier / 1e8 are in the   *)
(* unit of the market cap and per-share figures are in won.                *)
(* Further fields of a valued row: PER, PBR, ROE ROE(%), debt_ratio        *)
(* 부채비율(%), opm 영업이익률(%), BPS, EPS, div_yield 배당수익률(%), PSR, PEG,     *)
(* earnings_yield 이익수익률(%), FCF_yield FCF수익률(%), cash_conversion        *)
(* 현금전환율(%), capex_ratio CAPEX비율(%), quality_ok 이익품질_양호,              *)
(* debt_cover 부채상환능력, SRIM 적정주가_SRIM, gap 괴리율(%), PER_flag PER_이상,   *)
(* S_x the sub-scores, composite 종합점수.                                    *)

DailyRow(code, name, close, mktcap, shares) ==
    [code |-> code, name |-> name, close |-> close, mktcap |-> mktcap,
     shares |-> shares]

SharesRow(code, date, issued) == [code |-> code, date |-> date, issued |-> issued]

RECURSIVE drop_duplicates_code(_)
\* df.drop_duplicates("code")
drop_duplicates_code(t) ==
    IF t = << >> THEN << >>
    ELSE LET init == SubSeq(t, 1, Len(t) - 1)
             last == t[Len(t)]
         IN  IF \E i \in DOMAIN init : init[i].code = last.code
             THEN drop_duplicates_code(init)
             ELSE Append(drop_duplicates_code(init), last)

RECURSIVE merge(_, _)
\* left.merge(right, on="code", how="inner"): the rows of left in order, each
\* joined with the rows of right of the same code
merge(left, right) ==
    IF left = << >> THEN << >>
    ELSE LET l == Head(left)
             rs == SelectSeq(right, LAMBDA r : r.code = l.code)
         IN  [i \in DOMAIN rs |->
                 [f \in DOMAIN l \cup DOMAIN rs[i] |->
                     IF f \in DOMAIN l THEN l[f] ELSE rs[i][f]]]
             \o merge(Tail(left), right)

RECURSIVE sort_values_date(_)
\* s.sort_values("date")
sort_values_date(t) ==
    IF t = << >> THEN << >>
    ELSE LET init == sort_values_date(SubSeq(t, 1, Len(t) - 1))
             last == t[Len(t)]
             n == Cardinality({i \in DOMAIN init : init[i].date <= last.date})
         IN  SubSeq(init, 1, n) \o <<last>> \o SubSeq(init, n + 1, Len(init))

\* lines 667-670: a missing or zero share count is taken from the first
\* share-count row of the code
BackfillShares(row, sh) ==
    LET mine == SelectSeq(sh, LAMBDA r : r.code = row.code)
    IN  IF isna(row.shares) \/ row.shares.v = 0
        THEN [row EXCEPT !.shares = IF mine = << >> THEN NaN ELSE mine[1].issued]
        ELSE row

\* F7_dilution with a strict comparison
F7_dilution_strict(row, sh) ==
    LET s == sort_values_date(SelectSeq(sh, LAMBDA r : r.code = row.code))
        latest_shares == s[Len(s)].issued
        prev_shares == s[Len(s) - 1].issued
    IN  IF Len(s) >= 2
        THEN IF notna(latest_shares) /\ notna(prev_shares) /\ prev_shares.v > 0
             THEN IF latest_shares.v < prev_shares.v THEN 1 ELSE 0
             ELSE row.F7
        ELSE row.F7

\* lines 738-745: F7 of one row
F7_dilution(row, sh) ==
    LET s == sort_values_date(SelectSeq(sh, LAMBDA r : r.code = row.code))
        latest_shares == s[Len(s)].issued
        prev_shares == s[Len(s) - 1].issued
    IN  IF Len(s) >= 2
        THEN IF notna(latest_shares) /\ notna(prev_shares) /\ prev_shares.v > 0
             THEN IF latest_shares.v <= prev_shares.v THEN 1 ELSE 0
             ELSE row.F7
        ELSE row.F7

\* lines 748-754: the score recomputed from the nine components
RecomputeFScore(row) ==
    [row EXCEPT !.F_score = row.F1 + row.F2 + row.F3 + row.F4 + row.F5
                            + row.F6 + row.F7 + row.F8 + row.F9]

\* Ke of the S-RIM estimate
Ke == 8

\* the multiplier over 1e8: fundamental amounts times this are in 1e8 won
UnitRatio(multiplier) == Quot(multiplier, 100000000)

\* lines 675-734: the ratio columns of one merged row
RatioColumns(row, multiplier) ==
    LET M == UnitRatio(multiplier)
        zero == Rat(0, 1)
        hundred == Rat(100, 1)
        ni == row.TTM_ni
        cap == row.mktcap
        eq == row.equity
        shares_safe == IF notna(row.shares) /\ AsRat(row.shares).n = 0
                       THEN NaN ELSE row.shares
        PER == IF FGT(ni, zero) /\ FGT(cap, zero)
               THEN FDiv(cap, FMul(ni, M)) ELSE NaN
        EPS == FDiv(FMul(ni, M), shares_safe)
    IN  [PER |-> PER,
         PBR |-> IF FGT(eq, zero) /\ FGT(cap, zero)
                 THEN FDiv(cap, FMul(eq, M)) ELSE NaN,
         ROE |-> IF FGT(eq, zero) /\ notna(ni)
                 THEN FMul(FDiv(ni, eq), hundred) ELSE NaN,
         debt_ratio |-> IF FGT(eq, zero)
                        THEN FMul(FDiv(row.debt, eq), hundred) ELSE NaN,
         opm |-> row.opm_latest,
         BPS |-> FDiv(FMul(eq, M), shares_safe),
         EPS |-> EPS,
         div_yield |-> IF FGT(row.close, zero) /\ FGT(row.DPS_latest, zero)
                       THEN FMul(FDiv(row.DPS_latest, row.close), hundred)
                       ELSE zero,
         PSR |-> IF FGT(row.TTM_rev, zero) /\ FGT(cap, zero)
                 THEN FDiv(cap, FMul(row.TTM_rev, M)) ELSE NaN,
         PEG |-> IF notna(PER) /\ FGT(PER, zero) /\ notna(row.ni_CAGR)
                    /\ CagrPositive(row.ni_CAGR)
                 THEN IF IsCagr(row.ni_CAGR)
                      THEN [nan |-> FALSE, per |-> PER, cagr |-> row.ni_CAGR]
                      ELSE FDiv(PER, row.ni_CAGR)
                 ELSE NaN,
         earnings_yield |-> IF FGT(row.close, zero) /\ notna(EPS) /\ FGT(EPS, zero)
                            THEN FMul(FDiv(EPS, row.close), hundred) ELSE NaN,
         FCF_yield |-> IF notna(row.TTM_FCF) /\ FGT(cap, zero)
                       THEN FMul(FDiv(FMul(row.TTM_FCF, M), cap), hundred)
                       ELSE NaN,
         cash_conversion |->
             IF notna(row.TTM_OCF) /\ notna(ni) /\ FGT(ni, zero)
             THEN FMul(FDiv(row.TTM_OCF, ni), hundred) ELSE NaN,
         capex_ratio |->
             IF notna(row.TTM_CAPEX) /\ notna(row.TTM_OCF)
                /\ FGT(row.TTM_OCF, zero)
             THEN FMul(FDiv(row.TTM_CAPEX, row.TTM_OCF), hundred) ELSE NaN,
         quality_ok |->
             IF notna(row.TTM_OCF) /\ notna(ni) /\ FGT(ni, zero)
             THEN IF FGT(row.TTM_OCF, ni) THEN 1 ELSE 0
             ELSE 0,
         debt_cover |->
             IF notna(row.TTM_OCF) /\ notna(row.debt) /\ FGT(row.debt, zero)
             THEN FDiv(row.TTM_OCF, row.debt) ELSE NaN]

\* SrimColumns with the conservative estimate whatever the ROE
SrimColumns_flat(row) ==
    LET SRIM == IF FGT(row.BPS, Rat(0, 1)) THEN FMul(row.BPS, Rat(9, 10)) ELSE NaN
    IN  [SRIM |-> SRIM,
         gap |-> FMul(FDiv(FSub(SRIM, row.close), row.close), Rat(100, 1)),
         PER_flag |-> IF FLT(row.PER, Rat(1, 2)) \/ FGT(row.PER, Rat(500, 1))
                      THEN "warn" ELSE ""]

\* lines 756-766: the S-RIM estimate, its gap to the price and the PER flag
SrimColumns(row) ==
    LET zero == Rat(0, 1)
        SRIM == IF FGT(row.ROE, Rat(Ke, 1)) /\ FGT(row.BPS, zero)
                THEN FAdd(row.BPS,
                          FDiv(FMul(row.BPS, FSub(row.ROE, Rat(Ke, 1))), Rat(Ke, 1)))
                ELSE IF FGT(row.BPS, zero) THEN FMul(row.BPS, Rat(9, 10))
                ELSE NaN
    IN  [SRIM |-> SRIM,
         gap |-> FMul(FDiv(FSub(SRIM, row.close), row.close), Rat(100, 1)),
         PER_flag |-> IF FLT(row.PER, Rat(1, 2)) \/ FGT(row.PER, Rat(500, 1))
                      THEN "warn" ELSE ""]

RECURSIVE Pow(_, _)
Pow(b, e) == IF e = 0 THEN 1 ELSE b * Pow(b, e - 1)

\* a < b for two symbolic CAGRs: (v1 / v0) ** (1 / days) compared by raising
\* both sides to the least common multiple of the two spans
CagrLT(a, b) ==
    LET g == Gcd(a.days, b.days)
        ea == b.days \div g
        eb == a.days \div g
    IN  Pow(a.v1, ea) * Pow(b.v0, eb) < Pow(b.v1, eb) * Pow(a.v0, ea)

\* a < b for two defined floats of one column
ValLT(a, b) ==
    IF IsCagr(a) THEN CagrLT(a, b) ELSE RatGT(AsRat(b), AsRat(a))

\* RankPct with undefined values ranked below every defined one
RankPct_nanlow(col, i) ==
    LET less == Cardinality({j \in DOMAIN col :
                                isna(col[j]) \/ (notna(col[i]) /\ ValLT(col[j], col[i]))})
        equal == Cardinality({j \in DOMAIN col :
                                 IF isna(col[i]) THEN FALSE
                                 ELSE notna(col[j]) /\ ~ValLT(col[j], col[i])
                                      /\ ~ValLT(col[i], col[j])})
    IN  IF isna(col[i]) THEN Rat(0, 1)
        ELSE Quot(2 * less + equal + 1, 2 * Len(col))

\* col.rank(pct=True, na_option='keep')[i]: the average rank of col[i] among
\* the defined values of the column over their number, NaN for NaN
RankPct(col, i) ==
    IF isna(col[i]) THEN NaN
    ELSE LET def == {j \in DOMAIN col : notna(col[j])}
             less == Cardinality({j \in def : ValLT(col[j], col[i])})
             equal == Cardinality({j \in def : ~ValLT(col[j], col[i])
                                                /\ ~ValLT(col[i], col[j])})
         IN  Quot(2 * less + equal + 1, 2 * Cardinality(def))

\* df[name]
Column(df, name) == [i \in DOMAIN df |-> df[i][name]]

\* df[name].rank(pct=True, na_option='keep') * 100
ScoreUp(df, name, i) == FMul(RankPct(Column(df, name), i), Rat(100, 1))

\* (1 - df[name].rank(pct=True, na_option='keep')) * 100
ScoreDown(df, name, i) ==
    FMul(FSub(Rat(1, 1), RankPct(Column(df, name), i)), Rat(100, 1))

\* x.clip(lo, hi)
Clip(x, lo, hi) == IF x < lo THEN lo ELSE IF x > hi THEN hi ELSE x

\* Fillna0 with an undefined sub-score counted as full marks
Fillna0_full(x) == IF isna(x) THEN Rat(100, 1) ELSE AsRat(x)

\* x.fillna(0)
Fillna0(x) == IF isna(x) THEN Rat(0, 1) ELSE AsRat(x)

\* lines 769-800: the sub-scores of row i
ScoreColumns(df, i) ==
    [S_PER |-> ScoreDown(df, "PER", i),
     S_PBR |-> ScoreDown(df, "PBR", i),
     S_ROE |-> ScoreUp(df, "ROE", i),
     S_rev_CAGR |-> ScoreUp(df, "rev_CAGR", i),
     S_op_CAGR |-> ScoreUp(df, "op_CAGR", i),
     S_ni_CAGR |-> ScoreUp(df, "ni_CAGR", i),
     S_consec |-> Quot((Clip(df[i].rev_consec, 0, 5) + Clip(df[i].op_consec, 0, 5)
                        + Clip(df[i].ni_consec, 0, 5)) * 20, 3),
     S_margin |-> ScoreUp(df, "margin_delta", i),
     S_div_yield |-> ScoreUp(df, "div_yield", i),
     S_div_consec |-> Rat(Clip(df[i].DPS_consec, 0, 5) * 20, 1),
     S_gap |-> ScoreUp(df, "gap", i),
     S_F |-> RatMul(RankPct([j \in DOMAIN df |-> Num(df[j].F_score)], i),
                    Rat(100, 1)),
     S_FCF_yield |-> ScoreUp(df, "FCF_yield", i),
     S_Q_rev_YoY |-> ScoreUp(df, "Q_rev_YoY", i),
     S_Q_op_YoY |-> ScoreUp(df, "Q_op_YoY", i),
     S_TTM_rev_YoY |-> ScoreUp(df, "TTM_rev_YoY", i),
     S_TTM_op_YoY |-> ScoreUp(df, "TTM_op_YoY", i),
     S_Q_consec |-> Quot((Clip(df[i].Q_rev_consec, 0, 4)
                          + Clip(df[i].Q_op_consec, 0, 4)) * 25, 2)]

\* the weights of the composite score, times 10
CompositeWeights ==
    <<[name |-> "S_PER", w |-> 15], [name |-> "S_PBR", w |-> 10],
      [name |-> "S_ROE", w |-> 20], [name |-> "S_rev_CAGR", w |-> 20],
      [name |-> "S_op_CAGR", w |-> 20], [name |-> "S_ni_CAGR", w |-> 10],
      [name |-> "S_consec", w |-> 10], [name |-> "S_margin", w |-> 10],
      [name |-> "S_div_yield", w |-> 3], [name |-> "S_div_consec", w |-> 3],
      [name |-> "S_gap", w |-> 10], [name |-> "S_F", w |-> 20],
      [name |-> "S_FCF_yield", w |-> 15]>>

RECURSIVE WeightedSum(_, _)
\* the sum over the first k weights of weight * sub-score.fillna(0)
WeightedSum(row, k) ==
    IF k = 0 THEN Rat(0, 1)
    ELSE RatAdd(WeightedSum(row, k - 1),
                RatMul(Rat(CompositeWeights[k].w, 10),
                       Fillna0(row[CompositeWeights[k].name])))

\* lines 802-816
Composite(row) == WeightedSum(row, Len(CompositeWeights))

\* the element of a set of one element
Only(S) == CHOOSE x \in S : TRUE

\* the table with every cell computed
Computed(df) == df \o << >>

calc_valuation(dl, anal_df, multiplier, sh) ==
    LET WithShares(df) ==
            IF sh # << >>
            THEN [i \in DOMAIN df |-> BackfillShares(df[i], sh)]
            ELSE df
        WithRatios(filled) ==
            [i \in DOMAIN filled |->
                filled[i] @@ RatioColumns(filled[i], multiplier)]
        WithFScore(ratios) ==
            IF sh # << >>
            THEN [i \in DOMAIN ratios |->
                     RecomputeFScore(
                         [ratios[i] EXCEPT !.F7 = F7_dilution(ratios[i], sh)])]
            ELSE ratios
        WithSrim(scored) ==
            [i \in DOMAIN scored |-> scored[i] @@ SrimColumns(scored[i])]
        WithScores(valued) ==
            [i \in DOMAIN valued |-> valued[i] @@ ScoreColumns(valued, i)]
        WithComposite(ranked) ==
            [i \in DOMAIN ranked |->
                ranked[i] @@ [composite |-> Composite(ranked[i])]]
    IN  Only({Computed(WithComposite(ranked)) :
                ranked \in {Computed(WithScores(valued)) :
                  valued \in {Computed(WithSrim(scored)) :
                    scored \in {Computed(WithFScore(ratios)) :
                      ratios \in {Computed(WithRatios(filled)) :
                        filled \in {Computed(WithShares(df)) :
                          df \in {merge(drop_duplicates_code(dl),
                                        anal_df)}}}}}}})

-----------------------------------------------------------------------------
(* Specification of the series utilities: calc_cagr and                    *)
(* count_consecutive_growth applied to one series.                         *)

\* year-end dates of the modelled fiscal years
AnnualDates == {(2019 + i) * 10000 + 1231 : i \in 1..NumYears}

\* the year-ends and one half-year date between the first two of them
SeriesDates == AnnualDates \cup {20210630}

SeriesValues == {-5, 0, 10, 15, 20, 30}

\* every series over SeriesDates, entered in ascending or descending date order
SeriesDicts ==
    LET asc == {DictOf(f) : f \in PartialFns(SeriesDates, SeriesValues)}
    IN  asc \cup {Reverse(d) : d \in asc}

NoTable == << >>

\* the persisted dashboard table and the state of the collection pipeline
stores == <<dashboard_result, batch_log, session, stocks, success_count>>

\* no dashboard table is stored and no pipeline run has started
InitStores ==
    /\ dashboard_result = [exists |-> FALSE, rows |-> << >>]
    /\ batch_log = << >>
    /\ session = [pending |-> {}, committed |-> {}, batch_logs |-> << >>]
    /\ stocks = << >>
    /\ success_count = 0

InitSeries ==
    /\ pc = "start"
    /\ series_dict \in SeriesDicts
    /\ q_data = NoTable
    /\ ind_df = NoTable
    /\ fs_df = NoTable
    /\ ind_grp = NoTable
    /\ fs_grp = NoTable
    /\ daily = NoTable
    /\ shares_df = NoTable
    /\ full_df = NoTable
    /\ stored_df = NoTable
    /\ InitStores
    /\ result = [fn |-> "none"]

loaded ==
    <<stored_df, series_dict, q_data, ind_df, fs_df, ind_grp, fs_grp, daily,
      shares_df>>

inputs == <<loaded, full_df, stores>>

CalcCagr ==
    /\ pc = "start"
    /\ pc' = "calc_cagr"
    /\ result' = [fn |-> "calc_cagr", value |-> calc_cagr(series_dict, 2)]
    /\ UNCHANGED inputs

CountConsecutiveGrowth ==
    /\ pc = "start"
    /\ pc' = "count_consecutive_growth"
    /\ result' = [fn |-> "count_consecutive_growth",
                  value |-> count_consecutive_growth(series_dict)]
    /\ UNCHANGED inputs

NextSeries == CalcCagr \/ CountConsecutiveGrowth

SpecSeries == InitSeries /\ [][NextSeries]_vars

-----------------------------------------------------------------------------
(* Claims about the series utilities (SpecSeries).                         *)

\* the date of series sd that has exactly i - 1 earlier dates in sd
NthDate(sd, i) ==
    CHOOSE k \in DictKeys(sd) :
        Cardinality({j \in DictKeys(sd) : j < k}) = i - 1

\* C1: calc_cagr returns NaN (never 0) for every series with fewer than 2
\* dated points, or whose earliest or latest value is <= 0, or whose span
\* from the earliest to the latest date is under half a year; for every
\* other series it returns ((latest/earliest)^(1/years) - 1) * 100 of the
\* earliest and the latest dated value and of the span between them.
C1_CagrContract ==
    pc = "calc_cagr" =>
      LET n == Cardinality(DictKeys(series_dict))
          first == NthDate(series_dict, 1)
          last == NthDate(series_dict, n)
          span == Timestamp(last) - Timestamp(first)
      IN  IF \/ n < 2
             \/ DictGet(series_dict, first) <= 0
             \/ DictGet(series_dict, last) <= 0
             \/ 200 * span < 36525
          THEN result.value = NaN /\ result.value # Num(0)
          ELSE result.value = CagrValue(DictGet(series_dict, first),
                                        DictGet(series_dict, last), span)

\* two positive values less than half a year apart: undefined
C1_Witness ==
    /\ pc = "calc_cagr"
    /\ DictKeys(series_dict) = {20201231, 20210630}
    /\ \A i \in DOMAIN series_dict : series_dict[i].v > 0
    /\ result.value = NaN

\* C2: count_consecutive_growth returns the length of the longest run of
\* steps, taken backward from the most recent date in ascending date order,
\* in which value[i] > value[i-1] and value[i-1] > 0; it stops at the first
\* step that violates this, and returns 0 for fewer than 2 points.
C2_ConsecutiveGrowthContract ==
    pc = "count_consecutive_growth" =>
      LET n == Cardinality(DictKeys(series_dict))
          val(i) == DictGet(series_dict, NthDate(series_dict, i))
          \* the j-th step back from the most recent date is a growth step
          Good(j) == val(n - j + 1) > val(n - j) /\ val(n - j) > 0
          runs == {k \in 0..(n - 1) : \A j \in 1..k : Good(j)}
      IN  IF n < 2 THEN result.value = 0
          ELSE result.value = Max(runs)

\* the series 10, 20, 15, 30 gives 1, not 2
C2_Witness ==
    /\ pc = "count_consecutive_growth"
    /\ Cardinality(DictKeys(series_dict)) = 4
    /\ [i \in 1..4 |-> DictGet(series_dict, NthDate(series_dict, i))]
         = <<10, 20, 15, 30>>
    /\ result.value = 1

-----------------------------------------------------------------------------
(* Specifications of the quarterly utilities: calc_quarterly_yoy and       *)
(* calc_ttm_yoy applied to the quarterly indicator rows of one ticker.     *)

\* an indicator row; group is the indicator-group tag (RATIO_Y, RATIO_Q, DPS)
IndRow(code, date, group, account, value) ==
    [code |-> code, date |-> date, group |-> group, account |-> account,
     value |-> value]

\* The rows of one account of one ticker and group: one row per date in the
\* domain of f, in ascending date order; f[d] is the row's value, NaN
\* included.
AccountRows(code, group, account, f) ==
    LET ds == SortedSeq(DOMAIN f)
    IN  [i \in DOMAIN ds |-> IndRow(code, ds[i], group, account, f[ds[i]])]

YoyQuarters == {QuarterDate(2023, i) : i \in 0..(NumQuartersYoy - 1)}

YoyValues == {NaN} \cup {Num(x) : x \in {-1, 0, 1, 2}}

InitYoy ==
    /\ pc = "start"
    /\ series_dict = << >>
    /\ q_data \in {AccountRows("000660", "RATIO_Q", <<"rev">>, f) :
                      f \in PartialFns(YoyQuarters, YoyValues)}
    /\ ind_df = NoTable
    /\ fs_df = NoTable
    /\ ind_grp = NoTable
    /\ fs_grp = NoTable
    /\ daily = NoTable
    /\ shares_df = NoTable
    /\ full_df = NoTable
    /\ stored_df = NoTable
    /\ InitStores
    /\ result = [fn |-> "none"]

CalcQuarterlyYoy ==
    /\ pc = "start"
    /\ pc' = "calc_quarterly_yoy"
    /\ result' = [fn |-> "calc_quarterly_yoy",
                  value |-> calc_quarterly_yoy(q_data, "Revenue")]
    /\ UNCHANGED inputs

NextYoy == CalcQuarterlyYoy

SpecYoy == InitYoy /\ [][NextYoy]_vars

TtmQuarters == {QuarterDate(2022, i) : i \in 0..(NumQuartersTtm - 1)}

TtmValues == {Num(x) : x \in {-1, 1}}

InitTtm ==
    /\ pc = "start"
    /\ series_dict = << >>
    /\ q_data \in {AccountRows("000660", "RATIO_Q", <<"opinc">>, f) :
                      f \in PartialFns(TtmQuarters, TtmValues)}
    /\ ind_df = NoTable
    /\ fs_df = NoTable
    /\ ind_grp = NoTable
    /\ fs_grp = NoTable
    /\ daily = NoTable
    /\ shares_df = NoTable
    /\ full_df = NoTable
    /\ stored_df = NoTable
    /\ InitStores
    /\ result = [fn |-> "none"]

CalcTtmYoy ==
    /\ pc = "start"
    /\ pc' = "calc_ttm_yoy"
    /\ result' = [fn |-> "calc_ttm_yoy",
                  value |-> calc_ttm_yoy(q_data, "OpIncome")]
    /\ UNCHANGED inputs

NextTtm == CalcTtmYoy

SpecTtm == InitTtm /\ [][NextTtm]_vars

-----------------------------------------------------------------------------
(* Specification of unit detection: detect_unit_multiplier applied to an   *)
(* indicator table.                                                        *)

\* the last two fiscal year-ends and the half-year date after them
UnitDates ==
    {Max(AnnualDates) - 10000, Max(AnnualDates), Max(AnnualDates) + 9399}

\* revenue figures in multiples of 5e5: 0, 5e5, 1e8, 2.5e8, 5e11, 1e14,
\* 2e14, 3e14, a negative figure and a missing one
UnitValues ==
    {NaN} \cup {Num(x) : x \in {-1, 0, 1, 200, 500, 1000000, 200000000,
                                400000000, 600000000}}

\* revenue, and a revenue growth rate (매출액증가율), which is no revenue figure
UnitLabels == {<<"rev">>, <<"rev", "growth_rate">>}

\* rows the function must ignore: another ticker's annual revenue and the
\* reference ticker's quarterly revenue, both above every threshold
OtherRows ==
    <<IndRow("000660", Max(AnnualDates), "RATIO_Y", <<"rev">>, Num(600000000)),
      IndRow("005930", Max(AnnualDates), "RATIO_Q", <<"rev">>, Num(600000000))>>

InitUnit ==
    /\ pc = "start"
    /\ series_dict = << >>
    /\ q_data = NoTable
    /\ ind_df \in
         {pre \o AccountRows("005930", "RATIO_Y", label, f) :
             pre \in {<< >>, OtherRows},
             label \in UnitLabels,
             f \in PartialFns(UnitDates, UnitValues)}
    /\ fs_df = NoTable
    /\ ind_grp = NoTable
    /\ fs_grp = NoTable
    /\ daily = NoTable
    /\ shares_df = NoTable
    /\ full_df = NoTable
    /\ stored_df = NoTable
    /\ InitStores
    /\ result = [fn |-> "none"]

DetectUnitMultiplier ==
    /\ pc = "start"
    /\ pc' = "detect_unit_multiplier"
    /\ result' = [fn |-> "detect_unit_multiplier",
                  value |-> detect_unit_multiplier(ind_df)]
    /\ UNCHANGED inputs

NextUnit == DetectUnitMultiplier

SpecUnit == InitUnit /\ [][NextUnit]_vars

-----------------------------------------------------------------------------
(* Claims about unit detection (SpecUnit).                                 *)

\* the rows of ind_df that carry a revenue figure of the reference ticker:
\* annual-ratio rows of 005930 labelled revenue, with a value
RefRevenueRows ==
    {i \in DOMAIN ind_df :
        /\ ind_df[i].code = "005930"
        /\ ind_df[i].group = "RATIO_Y"
        /\ ind_df[i].account = <<"rev">>
        /\ notna(ind_df[i].value)}

\* C7: detect_unit_multiplier always returns 1, 1,000,000 or 100,000,000:
\* 100,000,000 when the reference ticker 005930 or its revenue is absent;
\* otherwise the figure it compares is a revenue figure of the reference
\* ticker and the result is 1 when that figure is > 1e14, 1,000,000 when it
\* is > 1e8 and <= 1e14, and 100,000,000 for every smaller figure.
C7_MultiplierThresholds ==
    pc = "detect_unit_multiplier" =>
      LET r == result.value
      IN  /\ r.multiplier \in {1, 1000000, 100000000}
          /\ IF RefRevenueRows = {}
             THEN r.multiplier = 100000000
             ELSE /\ \E i \in RefRevenueRows : ind_df[i].value = r.latest_rev
                  /\ r.latest_rev.v > 200000000 => r.multiplier = 1
                  /\ (r.latest_rev.v > 200 /\ r.latest_rev.v <= 200000000)
                        => r.multiplier = 1000000
                  /\ r.latest_rev.v <= 200 => r.multiplier = 100000000

\* a reference revenue of exactly 1e14 is not above the first threshold
C7_Witness ==
    /\ pc = "detect_unit_multiplier"
    /\ result.value.latest_rev = Num(200000000)
    /\ result.value.multiplier = 1000000

\* the only revenue figure of the reference ticker, when it has exactly one
SoleRefRevenue(x) ==
    /\ RefRevenueRows # {}
    /\ \A i \in RefRevenueRows : ind_df[i].value = Num(x)

\* C8 as stated: a reference revenue of 3.0e14 gives multiplier 1, 5.0e11
\* gives 1,000,000, 2.5e8 gives 100,000,000, and absent reference data gives
\* 100,000,000.
C8_MultiplierExamples ==
    pc = "detect_unit_multiplier" =>
      /\ SoleRefRevenue(600000000) => result.value.multiplier = 1
      /\ SoleRefRevenue(1000000) => result.value.multiplier = 1000000
      /\ SoleRefRevenue(500) => result.value.multiplier = 100000000
      /\ RefRevenueRows = {} => result.value.multiplier = 100000000

\* C8 as amended: a reference revenue of 3.0e14 gives multiplier 1, 5.0e11
\* gives 1,000,000, 2.5e8 (which is above 1e8) gives 1,000,000 too, and
\* absent reference data gives 100,000,000.
C8_MultiplierExamplesAmended ==
    pc = "detect_unit_multiplier" =>
      /\ SoleRefRevenue(600000000) => result.value.multiplier = 1
      /\ SoleRefRevenue(1000000) => result.value.multiplier = 1000000
      /\ SoleRefRevenue(500) => result.value.multiplier = 1000000
      /\ RefRevenueRows = {} => result.value.multiplier = 100000000

\* the reference ticker reports 2.5e8 and the table holds other rows too
C8_Witness ==
    /\ pc = "detect_unit_multiplier"
    /\ SoleRefRevenue(500)
    /\ Len(ind_df) > Cardinality(RefRevenueRows)
    /\ result.value.multiplier = 1000000

\* C9: the revenue figure compared against the thresholds is the reference
\* ticker's most recent annual revenue, the value at the latest annual
\* (12-31) date, also when an earlier year's revenue is larger.
C9_ComparesLatestAnnualRevenue ==
    pc = "detect_unit_multiplier" =>
      LET annual == {i \in RefRevenueRows : IsAnnualDate(ind_df[i].date)}
      IN  annual # {} =>
            \E i \in annual :
                /\ \A j \in annual : ind_df[j].date <= ind_df[i].date
                /\ result.value.latest_rev = ind_df[i].value

-----------------------------------------------------------------------------
(* Claims about the quarterly utilities (SpecYoy, SpecTtm).                *)

\* the quarter dates at which q_data holds a value of the account
QDates == {q_data[i].date : i \in {j \in DOMAIN q_data : notna(q_data[j].value)}}

\* the value q_data holds at quarter d
QVal(d) == q_data[CHOOSE i \in DOMAIN q_data :
                     q_data[i].date = d /\ notna(q_data[i].value)].value.v

\* the quarters that have a value a year earlier too
QDatesWithPrior == {d \in QDates : (d - 10000) \in QDates}

\* the float x is the quotient n / d
IsQuotient(x, n, d) == notna(x) /\ x.n * d = n * x.d

\* the YoY rule of the claim at every quarter that has its prior-year quarter
YoyRule(yoy_series) ==
    \A d \in QDatesWithPrior :
        LET curr == QVal(d)
            prev == QVal(d - 10000)
        IN  /\ prev > 0 =>
                  /\ DictHas(yoy_series, d)
                  /\ IsQuotient(DictGet(yoy_series, d), (curr - prev) * 100, prev)
            /\ (prev < 0 /\ curr > 0) =>
                  ~(DictHas(yoy_series, d) /\ notna(DictGet(yoy_series, d)))

\* C3 as stated: in calc_quarterly_yoy, for every quarter whose same-date
\* quarter one year earlier is present, a positive prior value gives the YoY
\* (curr/prev - 1) * 100 and a negative prior value with a positive current
\* value gives an undefined YoY.
C3_YoyRuleAlways ==
    pc = "calc_quarterly_yoy" => YoyRule(result.value.yoy_series)

\* C3 as amended: the same rule, for an account that has at least 5
\* quarterly values (with fewer the function computes no YoY at all).
C3_YoyRuleFromFiveQuarters ==
    (pc = "calc_quarterly_yoy" /\ Cardinality(QDates) >= 5) =>
        YoyRule(result.value.yoy_series)

\* five or more quarters, one with a percentage and one sign flip left undefined
C3_Witness ==
    /\ pc = "calc_quarterly_yoy"
    /\ Cardinality(QDates) >= 5
    /\ \E d \in QDatesWithPrior :
          /\ QVal(d - 10000) = 1 /\ QVal(d) = 2
          /\ IsQuotient(DictGet(result.value.yoy_series, d), 100, 1)
    /\ \E d \in QDatesWithPrior :
          /\ QVal(d - 10000) < 0 /\ QVal(d) > 0
          /\ DictGet(result.value.yoy_series, d) = NaN

\* C4: the consecutive-positive-YoY count is the number of quarters, taken
\* backward from the most recent quarter that has its prior-year quarter,
\* up to the first one whose YoY is not positive or is undefined; a quarter
\* with an undefined YoY (prior-year value zero or negative) is not skipped.
C4_CountStopsAtFirstUndefined ==
    pc = "calc_quarterly_yoy" =>
      LET ys == result.value.yoy_series
          n == Cardinality(QDatesWithPrior)
          \* the j-th most recent quarter
          back(j) == CHOOSE d \in QDatesWithPrior :
                        Cardinality({e \in QDatesWithPrior : e > d}) = j - 1
          Grew(d) == DictHas(ys, d) /\ Positive(DictGet(ys, d))
          runs == {k \in 0..n : \A j \in 1..k : Grew(back(j))}
      IN  result.value.consecutive_yoy_growth = Max(runs)

RECURSIVE QSum(_)
\* the sum of the values at the quarters S
QSum(S) ==
    IF S = {} THEN 0
    ELSE LET d == CHOOSE x \in S : TRUE IN QVal(d) + QSum(S \ {d})

\* the quarters with at least lo and fewer than hi later quarters
QWindow(lo, hi) ==
    {d \in QDates : LET later == Cardinality({e \in QDates : e > d})
                    IN  lo <= later /\ later < hi}

\* C5: calc_ttm_yoy returns all three outputs undefined when the account has
\* fewer than 8 quarterly values; otherwise the current sum is over exactly
\* the 4 most recent values, the prior sum over the 4 before them, and the
\* YoY is defined only if the prior sum is > 0 (and is then
\* (current/prior - 1) * 100).
C5_TtmYoyContract ==
    pc = "calc_ttm_yoy" =>
      LET r == result.value
      IN  IF Cardinality(QDates) < 8
          THEN r.ttm_current = NaN /\ r.ttm_prev = NaN /\ r.ttm_yoy = NaN
          ELSE /\ Cardinality(QWindow(0, 4)) = 4
               /\ Cardinality(QWindow(4, 8)) = 4
               /\ r.ttm_current = Num(QSum(QWindow(0, 4)))
               /\ r.ttm_prev = Num(QSum(QWindow(4, 8)))
               /\ notna(r.ttm_yoy) =>
                     /\ QSum(QWindow(4, 8)) > 0
                     /\ IsQuotient(r.ttm_yoy,
                                   (QSum(QWindow(0, 4)) - QSum(QWindow(4, 8))) * 100,
                                   QSum(QWindow(4, 8)))

\* exactly 8 of the 9 quarters have a value and the YoY is defined
C5_Witness ==
    /\ pc = "calc_ttm_yoy"
    /\ Cardinality(QDates) = 8
    /\ notna(result.value.ttm_yoy)
    /\ result.value.ttm_prev = Num(2)

-----------------------------------------------------------------------------
(* Specification of the TTM figures of analyze_one_stock: one ticker whose *)
(* quarterly net income is present on any subset of the quarter dates,     *)
(* whose quarterly revenue fixes which quarter dates the ticker has, and   *)
(* whose annual table holds net income on any subset of two year ends and  *)
(* one half-year date.                                                     *)

\* the number of quarter dates of the TTM-figure specification
NumQuartersFig == 5

Ticker == "000660"

FigQuarters == {QuarterDate(2023, i) : i \in 0..(NumQuartersFig - 1)}

FigLatestQuarter == QuarterDate(2023, NumQuartersFig - 1)

\* quarterly revenue rows: none, a value on every quarter date, or a single
\* row without a value on the latest quarter date
FigRevRows ==
    {<< >>,
     AccountRows(Ticker, "RATIO_Q", <<"rev">>, [d \in FigQuarters |-> Num(5)]),
     AccountRows(Ticker, "RATIO_Q", <<"rev">>,
                 [d \in {FigLatestQuarter} |-> NaN])}

\* quarterly net income rows on any subset of the quarter dates; every date
\* has a value of its own (-2, 1, 4, 7 in the first year, 20 more a year on)
FigNiRows ==
    {AccountRows(Ticker, "RATIO_Q", <<"ni">>,
                 [d \in S |-> Num(Month(d) - 5 + (Year(d) - 2023) * 20)]) :
        S \in SUBSET FigQuarters}

\* quarterly operating income rows: none, or a value on every quarter date
FigOpRows ==
    {<< >>,
     AccountRows(Ticker, "RATIO_Q", <<"opinc">>, [d \in FigQuarters |-> Num(1)])}

FigYearDates == {20221231, 20231231, 20240630}

\* annual net income rows: the value of a date is its year minus 2019
FigAnnualNiRows ==
    {AccountRows(Ticker, "RATIO_Y", <<"ni">>, [d \in S |-> Num(Year(d) - 2019)]) :
        S \in SUBSET FigYearDates}

\* annual revenue rows: none, or a value at the latest year end
FigAnnualRevRows ==
    {<< >>,
     AccountRows(Ticker, "RATIO_Y", <<"rev">>, [d \in {20231231} |-> Num(7)])}

InitTtmFigures ==
    /\ pc = "start"
    /\ series_dict = << >>
    /\ q_data = NoTable
    /\ ind_df = NoTable
    /\ fs_df = NoTable
    /\ \E nq \in FigNiRows, rq \in FigRevRows, oq \in FigOpRows :
       \E ny \in FigAnnualNiRows, ry \in FigAnnualRevRows :
          ind_grp = rq \o nq \o oq \o ry \o ny
    /\ fs_grp = NoTable
    /\ daily = NoTable
    /\ shares_df = NoTable
    /\ full_df = NoTable
    /\ stored_df = NoTable
    /\ InitStores
    /\ result = [fn |-> "none"]

AnalyzeOneStock ==
    /\ pc = "start"
    /\ pc' = "analyze_one_stock"
    /\ result' = [fn |-> "analyze_one_stock",
                  value |-> analyze_one_stock(Ticker, ind_grp, fs_grp)]
    /\ UNCHANGED inputs

NextTtmFigures == AnalyzeOneStock

SpecTtmFigures == InitTtmFigures /\ [][NextTtmFigures]_vars

-----------------------------------------------------------------------------
(* Claims about the TTM figures.                                           *)

\* the dates of the ticker's rows of a group
GroupDates(group) ==
    {ind_grp[i].date : i \in {j \in DOMAIN ind_grp : ind_grp[j].group = group}}

\* the ticker's four most recent quarter dates, none if it has fewer
Last4Quarters ==
    LET qs == GroupDates("RATIO_Q")
    IN  IF Cardinality(qs) >= 4
        THEN {d \in qs : Cardinality({e \in qs : e > d}) < 4}
        ELSE {}

\* the rows of a group that carry a value of the account on date d
ValueRows(group, account, d) ==
    {i \in DOMAIN ind_grp :
        /\ ind_grp[i].group = group
        /\ ind_grp[i].account = account
        /\ ind_grp[i].date = d
        /\ notna(ind_grp[i].value)}

ValueAt(group, account, d) ==
    ind_grp[CHOOSE i \in ValueRows(group, account, d) : TRUE].value.v

\* the year ends on which the account has an annual value
YearEndsWith(account) ==
    {d \in GroupDates("RATIO_Y") :
        d % 10000 = 1231 /\ ValueRows("RATIO_Y", account, d) # {}}

\* the TTM figure of the account as the claim states it
TtmAsClaimed(account) ==
    IF /\ Last4Quarters # {}
       /\ \A d \in Last4Quarters : ValueRows("RATIO_Q", account, d) # {}
    THEN LET ds == SortedSeq(Last4Quarters)
         IN  Num(SumSeq([i \in DOMAIN ds |-> ValueAt("RATIO_Q", account, ds[i])]))
    ELSE IF YearEndsWith(account) # {}
    THEN Num(ValueAt("RATIO_Y", account, Max(YearEndsWith(account))))
    ELSE NaN

\* C6: each TTM figure of analyze_one_stock (revenue, operating income, net
\* income) is the sum of the four quarterly values on the ticker's four most
\* recent quarter dates when all four have a value for the account;
\* otherwise it is the value at the latest year end that has an annual value
\* for the account, and undefined when there is none.  It is never the sum
\* of fewer than four quarters.
C6_TtmFigures ==
    pc = "analyze_one_stock" =>
        /\ result.value.TTM_rev = TtmAsClaimed(<<"rev">>)
        /\ result.value.TTM_op = TtmAsClaimed(<<"opinc">>)
        /\ result.value.TTM_ni = TtmAsClaimed(<<"ni">>)

\* net income has a value on three of the four most recent quarter dates and
\* falls back to the annual value, while revenue is the sum of four quarters
C6_Witness ==
    /\ pc = "analyze_one_stock"
    /\ Cardinality({d \in Last4Quarters :
                        ValueRows("RATIO_Q", <<"ni">>, d) # {}}) = 3
    /\ result.value.TTM_ni = Num(4)
    /\ result.value.TTM_rev = Num(20)

-----------------------------------------------------------------------------
(* Specification of the quality score: one ticker analysed and then        *)
(* valued.  Net income, revenue and operating cash flow are annual         *)
(* indicator rows; total assets, liabilities, equity, current assets,      *)
(* current liabilities and gross profit are annual statement rows; each    *)
(* account is absent or has one of a few shapes over two year ends.        *)
(* Liabilities come with equity and current assets with current            *)
(* liabilities: both absent, the denominator alone, or both.               *)

\* the largest number of share-count snapshots of the ticker
NumShareSnapshots == 2

PrevYearEnd == 20221231

LastYearEnd == 20231231

\* the values of an account on the two year ends
Shape(prev_val, last_val) ==
    (PrevYearEnd :> Num(prev_val)) @@ (LastYearEnd :> Num(last_val))

\* the value of an account present on the last year end only
Single(last_val) == (LastYearEnd :> Num(last_val))

\* the rows of one account of the annual statements of one ticker
FsAccountRows(code, account, f) ==
    LET ds == SortedSeq(DOMAIN f)
    IN  [i \in DOMAIN ds |-> FsRow(code, ds[i], account, "y", f[ds[i]])]

\* the rows of an annual indicator account, none for the shape << >>
IndShapeRows(account, f) ==
    IF f = << >> THEN << >> ELSE AccountRows(Ticker, "RATIO_Y", account, f)

\* the rows of an annual statement account, none for the shape << >>
FsShapeRows(account, f) ==
    IF f = << >> THEN << >> ELSE FsAccountRows(Ticker, account, f)

ShareValues == {NaN, Num(0), Num(1), Num(2)}

\* the share-count tables of the ticker: up to NumShareSnapshots snapshots on
\* consecutive year ends, the latest first; the two latest snapshots take
\* any value (a defined positive one in tables of more than two snapshots)
\* and the earlier ones hold 1
ShareTables ==
    UNION {{[i \in 1..n |->
                SharesRow(Ticker, (2024 - i) * 10000 + 1231,
                          IF i <= 2 THEN v[i] ELSE Num(1))] :
               v \in [1..2 -> IF n <= 2 THEN ShareValues ELSE {Num(1), Num(2)}]} :
           n \in 0..NumShareSnapshots}

InitFScore ==
    /\ pc = "start"
    /\ series_dict = << >>
    /\ q_data = NoTable
    /\ \E ni \in {<< >>, Single(2), Shape(1, 2), Shape(2, -1)},
          rev \in {<< >>, Shape(1, 2)},
          ocf \in {<< >>, Shape(1, 3), Shape(-1, -1)} :
          ind_grp = IndShapeRows(<<"ni">>, ni) \o IndShapeRows(<<"rev">>, rev)
                    \o IndShapeRows(<<"opact", "cashflow">>, ocf)
    /\ ind_df = ind_grp
    /\ \E ta \in {<< >>, Shape(2, 2), Shape(0, 2)},
          de \in {<< << >>, << >> >>, << << >>, Shape(2, 2)>>,
                  <<Shape(1, 2), Shape(2, 2)>>, <<Shape(2, 1), Shape(2, 2)>>},
          cc \in {<< << >>, << >> >>, << << >>, Shape(2, 2)>>,
                  <<Shape(1, 2), Shape(2, 2)>>},
          gp \in {<< >>, Shape(1, 3)} :
          fs_grp = FsShapeRows(<<"assets", "total">>, ta)
                   \o FsShapeRows(<<"debt">>, de[1])
                   \o FsShapeRows(<<"equity">>, de[2])
                   \o FsShapeRows(<<"curassets">>, cc[1])
                   \o FsShapeRows(<<"curliab">>, cc[2])
                   \o FsShapeRows(<<"grossprofit">>, gp)
    /\ fs_df = fs_grp
    /\ daily = <<DailyRow(Ticker, "hynix", Num(3), Num(6), Num(0)),
                 DailyRow("005930", "samsung", Num(1), Num(4), Num(2))>>
    /\ shares_df \in ShareTables
    /\ full_df = NoTable
    /\ stored_df = NoTable
    /\ InitStores
    /\ result = [fn |-> "none"]

\* the valuation of the analysed ticker, as run_pipeline calls it
CalcValuation ==
    /\ pc = "analyze_one_stock"
    /\ pc' = "calc_valuation"
    /\ result' = [fn |-> "calc_valuation",
                  value |-> calc_valuation(daily, <<result.value>>,
                                detect_unit_multiplier(ind_df).multiplier,
                                shares_df)]
    /\ UNCHANGED inputs

NextFScore == AnalyzeOneStock \/ CalcValuation

SpecFScore == InitFScore /\ [][NextFScore]_vars

-----------------------------------------------------------------------------
(* Claims about the quality score.                                         *)

\* the number of dates on which the annual indicator rows carry a value of
\* the account
IndCount(account) ==
    Cardinality({ind_grp[i].date :
                    i \in {j \in DOMAIN ind_grp :
                              /\ ind_grp[j].group = "RATIO_Y"
                              /\ ind_grp[j].account = account
                              /\ notna(ind_grp[j].value)}})

\* the number of dates on which the annual statements carry a value of the
\* account
FsCount(account) ==
    Cardinality({fs_grp[i].date :
                    i \in {j \in DOMAIN fs_grp :
                              /\ fs_grp[j].period = "y"
                              /\ fs_grp[j].account = account
                              /\ notna(fs_grp[j].value)}})

\* the ticker's share counts that have a value
KnownShareCounts ==
    {i \in DOMAIN shares_df :
        shares_df[i].code = Ticker /\ notna(shares_df[i].issued)}

\* the components of a record of the analysis or a row of the valuation
Components(r) == <<r.F1, r.F2, r.F3, r.F4, r.F5, r.F6, r.F7, r.F8, r.F9>>

\* the components are flags, the score is their sum, and a component
\* without its prerequisite data is 0
ScoreContract(r) ==
    /\ \A i \in 1..9 : Components(r)[i] \in {0, 1}
    /\ r.F_score = SumSeq(Components(r))
    /\ r.F_score \in 0..9
    /\ IndCount(<<"ni">>) = 0 => r.F1 = 0
    /\ IndCount(<<"opact", "cashflow">>) = 0 => r.F2 = 0
    /\ (IndCount(<<"ni">>) < 2 \/ FsCount(<<"assets", "total">>) < 2) => r.F3 = 0
    /\ (IndCount(<<"opact", "cashflow">>) = 0 \/ IndCount(<<"ni">>) = 0)
          => r.F4 = 0
    /\ (FsCount(<<"debt">>) < 2 \/ FsCount(<<"equity">>) < 2) => r.F5 = 0
    /\ (FsCount(<<"curassets">>) < 2 \/ FsCount(<<"curliab">>) < 2) => r.F6 = 0
    /\ Cardinality(KnownShareCounts) < 2 => r.F7 = 0
    /\ (FsCount(<<"grossprofit">>) < 2 \/ IndCount(<<"rev">>) < 2) => r.F8 = 0
    /\ (IndCount(<<"rev">>) < 2 \/ FsCount(<<"assets", "total">>) < 2) => r.F9 = 0

\* C10: in the record of analyze_one_stock and in every row of
\* calc_valuation each of F1..F9 is 0 or 1, the quality score is the sum of
\* the nine and lies in 0..9, and a component whose prerequisite data is
\* unavailable is 0.
C10_FScoreContract ==
    /\ pc = "analyze_one_stock" =>
          ScoreContract(result.value) /\ result.value.F7 = 0
    /\ pc = "calc_valuation" =>
          \A i \in DOMAIN result.value : ScoreContract(result.value[i])

\* the valued ticker has a single year of positive net income and two share
\* counts of which one is unknown: only F1 can be computed and the score is 1
C10_Witness ==
    /\ pc = "calc_valuation"
    /\ IndCount(<<"ni">>) = 1
    /\ Len(ind_grp) = 1
    /\ fs_grp = << >>
    /\ Len(shares_df) = 2
    /\ Cardinality(KnownShareCounts) = 1
    /\ Len(result.value) = 1
    /\ result.value[1].TTM_ni = Num(2)
    /\ result.value[1].F1 = 1
    /\ result.value[1].F_score = 1

-----------------------------------------------------------------------------
(* Specification of the turnaround flag: one ticker whose annual indicator *)
(* rows hold net income on any subset of the year ends and of one later    *)
(* half-year date.                                                         *)

\* the number of year ends of the turnaround specification
NumTurnYears == 3

TurnDates == {(2020 + i) * 10000 + 1231 : i \in 1..NumTurnYears}
             \cup {(2021 + NumTurnYears) * 10000 + 630}

TurnValues == {Num(-3), Num(0), Num(5), Num(8)}

InitTurnaround ==
    /\ pc = "start"
    /\ series_dict = << >>
    /\ q_data = NoTable
    /\ ind_df = NoTable
    /\ fs_df = NoTable
    /\ \E f \in PartialFns(TurnDates, TurnValues) :
          ind_grp = IndShapeRows(<<"ni">>, f)
    /\ fs_grp = NoTable
    /\ daily = NoTable
    /\ shares_df = NoTable
    /\ full_df = NoTable
    /\ stored_df = NoTable
    /\ InitStores
    /\ result = [fn |-> "none"]

NextTurnaround == AnalyzeOneStock

SpecTurnaround == InitTurnaround /\ [][NextTurnaround]_vars

\* the value of annual net income on the i-th latest year end that has one
NiAtBack(i) ==
    LET ye == YearEndsWith(<<"ni">>)
        d == CHOOSE x \in ye : Cardinality({y \in ye : y > x}) = i - 1
    IN  ValueAt("RATIO_Y", <<"ni">>, d)

\* C11: the turnaround flag of analyze_one_stock is 1 exactly when annual net
\* income has at least two year-end values, the second-latest is < 0 and the
\* latest is > 0; otherwise (growth from a positive base included) it is 0.
C11_TurnaroundFlag ==
    pc = "analyze_one_stock" =>
        result.value.turnaround =
            IF /\ Cardinality(YearEndsWith(<<"ni">>)) >= 2
               /\ NiAtBack(2) < 0
               /\ NiAtBack(1) > 0
            THEN 1 ELSE 0

\* three year ends with a profit, then a loss, then a profit: the flag is 1
C11_Witness ==
    /\ pc = "analyze_one_stock"
    /\ Cardinality(YearEndsWith(<<"ni">>)) = 3
    /\ NiAtBack(3) = 8
    /\ NiAtBack(2) = -3
    /\ NiAtBack(1) = 5
    /\ result.value.turnaround = 1

\* growth from a positive base, 5 to 8: the flag is 0
C11_WitnessPositiveBase ==
    /\ pc = "analyze_one_stock"
    /\ Cardinality(YearEndsWith(<<"ni">>)) = 2
    /\ NiAtBack(2) = 5
    /\ NiAtBack(1) = 8
    /\ result.value.turnaround = 0


-----------------------------------------------------------------------------
(* Batch analysis.                                                         *)

\* a row whose date cell is empty (None) instead of a date string
MissingDate == -1

\* sorted(t["date"].unique()) raises TypeError: a missing date cannot be
\* compared with a date string
SortRaises(t) ==
    \E i, j \in DOMAIN t : t[i].date = MissingDate /\ t[j].date # MissingDate

\* analyze_one_stock raises instead of returning a record: the sorts of
\* lines 361, 363 and 410
AnalysisRaises(ind, fs) ==
    \/ ind # << >> /\ (\/ SortRaises(GroupRows(ind, "RATIO_Y"))
                       \/ SortRaises(GroupRows(ind, "RATIO_Q")))
    \/ fs # << >> /\ SortRaises(fs)

\* set(list(fs_df["code"].unique()) + list(ind_df["code"].unique()))
TickersOf(fs, ind) ==
    {fs[i].code : i \in DOMAIN fs} \cup {ind[i].code : i \in DOMAIN ind}

\* list(set(...)): the tickers in the iteration order of the set, which is
\* any order
TickerLists(fs, ind) ==
    LET S == TickersOf(fs, ind)
    IN  {l \in [1..Cardinality(S) -> S] : Range(l) = S}

\* ind_df[ind_df["code"] == ticker]
SliceOf(t, ticker) == SelectSeq(t, LAMBDA r : r.code = ticker)

\* The table of the records of the tickers in the order of the list; an
\* exception of one analysis leaves analyze_all through the loop, which
\* catches nothing.
analyze_all(fs, ind, tickers) ==
    IF \E i \in DOMAIN tickers :
           AnalysisRaises(SliceOf(ind, tickers[i]), SliceOf(fs, tickers[i]))
    THEN [fn |-> "analyze_all", raised |-> "TypeError"]
    ELSE [fn |-> "analyze_all", raised |-> "",
          value |-> [i \in DOMAIN tickers |->
                        analyze_one_stock(tickers[i], SliceOf(ind, tickers[i]),
                                          SliceOf(fs, tickers[i]))]]

AnalyzeAll ==
    /\ pc = "start"
    /\ \E tickers \in TickerLists(fs_df, ind_df) :
          result' = analyze_all(fs_df, ind_df, tickers)
    /\ pc' = IF result'.raised = "" THEN "analyze_all" ELSE "raised"
    /\ UNCHANGED inputs

\* run_pipeline after analyze_all: the valuation of the analysed table
CalcValuationAll ==
    /\ pc = "analyze_all"
    /\ pc' = "calc_valuation"
    /\ result' = [fn |-> "calc_valuation",
                  value |-> calc_valuation(daily, result.value,
                                detect_unit_multiplier(ind_df).multiplier,
                                shares_df)]
    /\ UNCHANGED inputs

-----------------------------------------------------------------------------
(* Specification of the scoring of a universe: analyze_all and             *)
(* calc_valuation applied to the tables of up to NumTickers tickers.  Each *)
(* ticker has annual indicator rows on three year ends, amounts in 1e8 won *)
(* (no row of the reference ticker: the multiplier is 1e8).                *)

NumTickers == 3

FirstYearEnd == 20211231

\* the values of an account on the three year ends
Years3(a, b, c) ==
    (FirstYearEnd :> Num(a)) @@ (PrevYearEnd :> Num(b)) @@ (LastYearEnd :> Num(c))

\* no row of the account
Absent == [d \in {} |-> NaN]

\* The fundamentals of a ticker, by kind:
\*   solid  - every account present, modest growth and returns
\*   star   - every account present, high growth and returns
\*   patchy - no equity rows and non-positive first-year figures (ROE and
\*            the three CAGRs are undefined), strong on everything else;
\*            the only kind with statement rows (gross profit)
\*   loss   - every account present, a net loss in the latest year
\*   bare   - revenue of the latest year only
\*   broken - revenue of the latest year and a revenue row without a date
Fundamentals ==
    [solid  |-> [rev |-> Years3(100, 110, 120), op |-> Years3(10, 11, 11),
                 ni |-> Years3(8, 9, 10), eq |-> Years3(100, 100, 100),
                 debt |-> Years3(100, 100, 100), ta |-> Years3(200, 200, 200),
                 ocf |-> Years3(12, 12, 12), capex |-> Years3(2, 2, 2),
                 dps |-> Years3(1, 1, 1),
                 gp |-> Absent,
                 close |-> 500, mktcap |-> 500, issued |-> <<1, 2>>],
     star   |-> [rev |-> Years3(100, 150, 300), op |-> Years3(10, 30, 90),
                 ni |-> Years3(10, 30, 80), eq |-> Years3(100, 150, 200),
                 debt |-> Years3(100, 90, 50), ta |-> Years3(200, 250, 300),
                 ocf |-> Years3(20, 50, 100), capex |-> Years3(5, 5, 5),
                 dps |-> Years3(1, 2, 4),
                 gp |-> Absent,
                 close |-> 500, mktcap |-> 500, issued |-> <<1, 2>>],
     patchy |-> [rev |-> Years3(0, 100, 400), op |-> Years3(-1, 10, 200),
                 ni |-> Years3(-1, 20, 250), eq |-> Absent,
                 debt |-> Years3(50, 50, 50), ta |-> Years3(100, 200, 300),
                 ocf |-> Years3(30, 30, 300), capex |-> Years3(5, 5, 5),
                 dps |-> Years3(1, 5, 10),
                 gp |-> Shape(10, 50),
                 close |-> 500, mktcap |-> 500, issued |-> <<1, 1>>],
     loss   |-> [rev |-> Years3(100, 110, 120), op |-> Years3(10, 11, -5),
                 ni |-> Years3(8, 9, -6), eq |-> Years3(100, 100, 90),
                 debt |-> Years3(100, 100, 110), ta |-> Years3(200, 200, 200),
                 ocf |-> Years3(12, 12, -2), capex |-> Years3(2, 2, 2),
                 dps |-> Years3(1, 1, 1),
                 gp |-> Absent,
                 close |-> 300, mktcap |-> 600, issued |-> <<2, 2>>],
     bare   |-> [rev |-> Single(50), op |-> Absent, ni |-> Absent,
                 eq |-> Absent, debt |-> Absent, ta |-> Absent,
                 ocf |-> Absent, capex |-> Absent, dps |-> Absent,
                 gp |-> Absent,
                 close |-> 100, mktcap |-> 100, issued |-> <<1, 1>>],
     broken |-> [rev |-> (MissingDate :> Num(40)) @@ Single(50), op |-> Absent,
                 ni |-> Absent, eq |-> Absent, debt |-> Absent, ta |-> Absent,
                 ocf |-> Absent, capex |-> Absent, dps |-> Absent,
                 gp |-> Absent,
                 close |-> 100, mktcap |-> 100, issued |-> <<1, 1>>]]

Kinds == DOMAIN Fundamentals

\* the indicator rows of a ticker of the kind
KindRows(code, kind) ==
    LET f == Fundamentals[kind]
        Rows(label, vals) == AccountRows(code, "RATIO_Y", label, vals)
    IN  Rows(<<"rev">>, f.rev) \o Rows(<<"opinc">>, f.op) \o Rows(<<"ni">>, f.ni)
        \o Rows(<<"equity">>, f.eq) \o Rows(<<"debt">>, f.debt)
        \o Rows(<<"assets", "total">>, f.ta)
        \o Rows(<<"opact", "cashflow">>, f.ocf)
        \o Rows(<<"ppe", "acq">>, f.capex)
        \o AccountRows(code, "DPS", <<"dps">>, f.dps)

\* the annual statement rows of a ticker of the kind
KindFs(code, kind) ==
    FsAccountRows(code, <<"grossprofit">>, Fundamentals[kind].gp)

\* the daily row of a ticker of the kind: mktcap / close shares outstanding
KindDaily(code, kind) ==
    LET f == Fundamentals[kind]
    IN  DailyRow(code, kind, Num(f.close), Num(f.mktcap),
                 Num(f.mktcap \div f.close))

\* the share-count snapshots of a ticker of the kind on the two last year ends
KindShares(code, kind) ==
    LET f == Fundamentals[kind]
    IN  <<SharesRow(code, LastYearEnd, Num(f.issued[2])),
          SharesRow(code, PrevYearEnd, Num(f.issued[1]))>>

UniverseCodes == <<"000001", "000002", "000003", "000004", "000005">>

\* the kinds the i-th ticker can be of, "none" for a ticker without data
KindsAt(i) ==
    IF i = 1 THEN {"solid", "bare", "none"}
    ELSE IF i = 2 THEN {"patchy", "loss", "bare", "none"}
    ELSE IF i = 3 THEN {"star", "loss", "broken", "none"}
    ELSE {"bare", "none"}

\* the universes: a kind for each of the first NumTickers codes, at least
\* one ticker with data (run stops before the analysis on an empty daily
\* table)
Universes ==
    {u \in [1..NumTickers -> Kinds \cup {"none"}] :
        /\ \A i \in 1..NumTickers : u[i] \in KindsAt(i)
        /\ \E i \in 1..NumTickers : u[i] # "none"}

RECURSIVE FlatMap(_, _, _)
\* the concatenation of Op(UniverseCodes[i], u[i]) over the tickers i <= n
\* that have data
FlatMap(Op(_, _), u, n) ==
    IF n = 0 THEN << >>
    ELSE FlatMap(Op, u, n - 1)
         \o (IF u[n] = "none" THEN << >> ELSE Op(UniverseCodes[n], u[n]))

DailyOne(code, kind) == <<KindDaily(code, kind)>>

InitUniverse ==
    /\ pc = "start"
    /\ series_dict = << >>
    /\ q_data = NoTable
    /\ \E u \in Universes :
          /\ ind_df = FlatMap(KindRows, u, NumTickers)
          /\ daily = FlatMap(DailyOne, u, NumTickers)
          /\ fs_df = FlatMap(KindFs, u, NumTickers)
          /\ shares_df = FlatMap(KindShares, u, NumTickers)
    /\ ind_grp = NoTable
    /\ fs_grp = NoTable
    /\ full_df = NoTable
    /\ stored_df = NoTable
    /\ InitStores
    /\ result = [fn |-> "none"]

NextUniverse == AnalyzeAll \/ CalcValuationAll

SpecUniverse == InitUniverse /\ [][NextUniverse]_vars

-----------------------------------------------------------------------------
(* Screens.                                                                *)
(*                                                                         *)
(* Further fields of a scored row: RSI_14, MA20_gap MA20_이격도(%),           *)
(* value_change 거래대금_증감(%), high52_gap 52주_최고대비(%): the technical     *)
(* columns that calc_technical_indicators adds and calc_valuation does     *)
(* not.  A screen returns [raised |-> "", rows |-> the screened table] or  *)
(* [raised |-> "KeyError"] when it reads a column the table lacks; each    *)
(* apply_* operator is the set of its possible returns, one per order of   *)
(* the rows of equal score (sort_values sorts with the unstable default).  *)

\* x.between(lo, hi), False for NaN
Between(x, lo, hi) == FGE(x, lo) /\ FLE(x, hi)

\* x.fillna(v)
FillnaWith(x, v) == IF isna(x) THEN v ELSE x

\* x.clip(lo, hi) for a float, NaN kept
FClip(x, lo, hi) ==
    IF isna(x) THEN NaN ELSE IF FLT(x, lo) THEN lo ELSE IF FGT(x, hi) THEN hi ELSE x

\* x.abs() for a float, NaN kept
FAbs(x) == IF isna(x) THEN NaN ELSE IF FLT(x, Rat(0, 1)) THEN FSub(Rat(0, 1), x) ELSE x

\* g[name].rank(pct=True)[i]
Rk(g, name, i) == RankPct(Column(g, name), i)

\* g[name].rank(pct=True)[i] for a column of integers
RkInt(g, name, i) == RankPct([j \in DOMAIN g |-> Num(g[j][name])], i)

\* g[name].fillna(v).rank(pct=True)[i]
RkFill(g, name, v, i) ==
    RankPct([j \in DOMAIN g |-> FillnaWith(g[j][name], v)], i)

\* g[name].fillna(v).clip(lo, hi).rank(pct=True)[i]; v = NaN for no fillna
RkClip(g, name, v, lo, hi, i) ==
    RankPct([j \in DOMAIN g |-> FClip(FillnaWith(g[j][name], v), lo, hi)], i)

\* 1 - x
OneMinus(x) == FSub(Rat(1, 1), x)

RECURSIVE ScoreSum(_)
\* the sum of the terms w * x of a screen score; NaN when a term is NaN
ScoreSum(terms) ==
    IF terms = << >> THEN Rat(0, 1)
    ELSE FAdd(FMul(Head(terms).w, Head(terms).x), ScoreSum(Tail(terms)))

\* a term of a screen score
Term(n, d, x) == [w |-> Rat(n, d), x |-> x]

\* the key x sorts strictly before the key y in descending order, NaN last
SortsBefore(x, y) == notna(x) /\ (isna(y) \/ ValLT(y, x))

\* g.sort_values(name, ascending=False): the tables it can return
sort_values_desc(g, name) ==
    {[i \in DOMAIN g |-> g[p[i]]] :
        p \in {q \in [DOMAIN g -> DOMAIN g] :
                  /\ \A i, j \in DOMAIN g : i # j => q[i] # q[j]
                  /\ \A i, j \in DOMAIN g :
                        i < j => ~SortsBefore(g[q[j]][name], g[q[i]][name])}}

\* the returns of a screen that kept the rows g and scores row i with
\* Score(i) under the column name; reads lists the columns the score reads
\* that the table may lack
ScreenReturns(g, name, Score(_), reads) ==
    IF g = << >> THEN {[raised |-> "", rows |-> g]}
    ELSE IF \E c \in reads : c \notin DOMAIN g[1] THEN {[raised |-> "KeyError"]}
    ELSE {[raised |-> "", rows |-> t] :
             t \in sort_values_desc(
                       [i \in DOMAIN g |-> g[i] @@ (name :> Score(i))], name)}

\* QualityMask with the market cap strictly above the threshold
QualityMask_above(r) ==
    /\ notna(r.TTM_ni) /\ FGT(r.TTM_ni, Rat(0, 1))
    /\ FGE(r.ROE, Rat(5, 1))
    /\ Between(r.PER, Rat(1, 1), Rat(50, 1))
    /\ Between(r.PBR, Rat(1, 10), Rat(10, 1))
    /\ r.rev_consec >= 2
    /\ r.ni_consec >= 1
    /\ FGT(r.mktcap, Rat(500, 1))
    /\ r.PER_flag = ""
    /\ r.F_score >= 5

\* lines 940-950
QualityMask(r) ==
    /\ notna(r.TTM_ni) /\ FGT(r.TTM_ni, Rat(0, 1))
    /\ FGE(r.ROE, Rat(5, 1))
    /\ Between(r.PER, Rat(1, 1), Rat(50, 1))
    /\ Between(r.PBR, Rat(1, 10), Rat(10, 1))
    /\ r.rev_consec >= 2
    /\ r.ni_consec >= 1
    /\ FGE(r.mktcap, Rat(500, 1))
    /\ r.PER_flag = ""
    /\ r.F_score >= 5

\* the table has rows and lacks column c: reading df[c] raises KeyError
LacksColumn(df, c) == df # << >> /\ c \notin DOMAIN df[1]

apply_screen(df) ==
    IF LacksColumn(df, "PER_flag") THEN {[raised |-> "KeyError"]}
    ELSE {[raised |-> "", rows |-> t] :
             t \in sort_values_desc(SelectSeq(df, QualityMask), "composite")}

\* lines 956-964
MomentumMask(r) ==
    /\ notna(r.rev_CAGR)
    /\ notna(r.op_CAGR)
    /\ (FGE(r.rev_CAGR, Rat(15, 1)) \/ FGE(r.op_CAGR, Rat(15, 1)))
    /\ r.margin_improved = 1
    /\ FGE(r.ROE, Rat(5, 1))
    /\ FGT(r.TTM_ni, Rat(0, 1))
    /\ FGE(r.mktcap, Rat(500, 1))

apply_momentum_screen(df) ==
    LET g == SelectSeq(df, MomentumMask)
        zero == Rat(0, 1)
        Score(i) ==
            ScoreSum(<<Term(2, 1, Rk(g, "rev_CAGR", i)),
                       Term(5, 2, Rk(g, "op_CAGR", i)),
                       Term(3, 2, Rk(g, "ROE", i)),
                       Term(1, 1, Rk(g, "opm_latest", i)),
                       Term(1, 2, RkInt(g, "margin_improved", i)),
                       Term(2, 1, RkFill(g, "Q_rev_YoY", zero, i)),
                       Term(2, 1, RkFill(g, "Q_op_YoY", zero, i)),
                       Term(3, 2, RankPct([j \in DOMAIN g |->
                                              Num(Clip(g[j].Q_rev_consec, 0, 4))], i)),
                       Term(1, 1, RkFill(g, "RSI_14", Rat(50, 1), i)),
                       Term(1, 1, RkFill(g, "MA20_gap", zero, i)),
                       Term(1, 2, RkFill(g, "value_change", zero, i))>>)
    IN  ScreenReturns(g, "momentum_score", Score,
                      {"RSI_14", "MA20_gap", "value_change"})

\* lines 997-1005
GarpMask(r) ==
    /\ notna(r.PEG) /\ FGT(r.PEG, Rat(0, 1)) /\ FLT(r.PEG, Rat(3, 2))
    /\ notna(r.rev_CAGR) /\ FGE(r.rev_CAGR, Rat(10, 1))
    /\ notna(r.ROE) /\ FGE(r.ROE, Rat(12, 1))
    /\ notna(r.PER) /\ Between(r.PER, Rat(5, 1), Rat(30, 1))
    /\ FGE(r.mktcap, Rat(500, 1))
    /\ FGT(r.TTM_ni, Rat(0, 1))
    /\ r.PER_flag = ""

apply_garp_screen(df) ==
    LET g == SelectSeq(df, GarpMask)
        Score(i) ==
            ScoreSum(<<Term(3, 1, OneMinus(Rk(g, "PEG", i))),
                       Term(2, 1, Rk(g, "rev_CAGR", i)),
                       Term(3, 2, Rk(g, "op_CAGR", i)),
                       Term(2, 1, Rk(g, "ROE", i)),
                       Term(3, 2, OneMinus(Rk(g, "PER", i))),
                       Term(1, 1, OneMinus(RkClip(g, "PBR", NaN, Rat(1, 2),
                                                  Rat(10, 1), i))),
                       Term(1, 1, RkClip(g, "cash_conversion", Rat(100, 1),
                                         Rat(50, 1), Rat(200, 1), i)),
                       Term(1, 2, RkInt(g, "F_score", i)),
                       Term(1, 2, Num(g[i].margin_improved)),
                       Term(1, 200, FillnaWith(g[i].S_gap, Rat(0, 1)))>>)
    IN  IF LacksColumn(df, "PER_flag") THEN {[raised |-> "KeyError"]}
        ELSE ScreenReturns(g, "garp_score", Score, {})

\* lines 1037-1049
CashcowMask(r) ==
    /\ notna(r.ROE) /\ FGE(r.ROE, Rat(10, 1))
    /\ notna(r.opm) /\ FGE(r.opm, Rat(10, 1))
    /\ \/ notna(r.debt_ratio) /\ FLT(r.debt_ratio, Rat(100, 1))
       \/ isna(r.debt_ratio)
    /\ r.rev_consec >= 1
    /\ FGE(r.mktcap, Rat(500, 1))
    /\ FGT(r.TTM_ni, Rat(0, 1))
    /\ r.quality_ok = 1
    /\ r.F_score >= 6

apply_cashcow_screen(df) ==
    LET g == SelectSeq(df, CashcowMask)
        zero == Rat(0, 1)
        Score(i) ==
            ScoreSum(<<Term(2, 1, Rk(g, "ROE", i)),
                       Term(2, 1, Rk(g, "opm", i)),
                       Term(3, 2, OneMinus(RkFill(g, "debt_ratio", zero, i))),
                       Term(5, 2, RkFill(g, "FCF_yield", zero, i)),
                       Term(2, 1, RkClip(g, "debt_cover", zero, zero,
                                         Rat(3, 1), i)),
                       Term(1, 1, RkInt(g, "rev_consec", i)),
                       Term(1, 1, OneMinus(RkClip(g, "PER", NaN, Rat(1, 1),
                                                  Rat(100, 1), i))),
                       Term(1, 2, Rk(g, "div_yield", i)),
                       Term(1, 1, RkInt(g, "F_score", i)),
                       Term(1, 200, FillnaWith(g[i].S_gap, zero))>>)
    IN  ScreenReturns(g, "cashcow_score", Score, {})

\* lines 1079-1086
TurnaroundMask(r) ==
    /\ (r.turnaround = 1 \/ r.margin_sharp = 1)
    /\ FGT(r.TTM_ni, Rat(0, 1))
    /\ FGE(r.mktcap, Rat(300, 1))

apply_turnaround_screen(df) ==
    LET g == SelectSeq(df, TurnaroundMask)
        zero == Rat(0, 1)
        Score(i) ==
            ScoreSum(<<Term(2, 1, RkFill(g, "margin_delta", zero, i)),
                       Term(2, 1, Rk(g, "rev_CAGR", i)),
                       Term(3, 2, Rk(g, "ROE", i)),
                       Term(2, 1, Num(g[i].turnaround)),
                       Term(1, 1, OneMinus(RkClip(g, "PER", NaN, zero,
                                                  Rat(100, 1), i))),
                       Term(3, 2, Num(g[i].margin_sharp)),
                       Term(1, 1, OneMinus(RkFill(g, "RSI_14", Rat(50, 1), i))),
                       Term(1, 1, OneMinus(RankPct(
                           [j \in DOMAIN g |->
                               FAbs(FillnaWith(g[j].high52_gap, zero))], i))),
                       Term(1, 2, RkInt(g, "F_score", i)),
                       Term(1, 200, FillnaWith(g[i].S_gap, zero))>>)
    IN  ScreenReturns(g, "turnaround_score", Score, {"RSI_14", "high52_gap"})

\* lines 1119-1128
DividendGrowthMask(r) ==
    /\ r.ni_consec >= 2
    /\ r.DPS_consec >= 1
    /\ notna(r.DPS_CAGR) /\ FGT(r.DPS_CAGR, Rat(0, 1))
    /\ notna(r.ROE) /\ FGE(r.ROE, Rat(5, 1))
    /\ FGT(r.div_yield, Rat(0, 1))
    /\ FGE(r.mktcap, Rat(300, 1))
    /\ FGT(r.TTM_ni, Rat(0, 1))
    /\ r.div_earnings_growth = 1

apply_dividend_growth_screen(df) ==
    LET g == SelectSeq(df, DividendGrowthMask)
        Score(i) ==
            ScoreSum(<<Term(3, 1, Rk(g, "DPS_CAGR", i)),
                       Term(5, 2, Rk(g, "ni_CAGR", i)),
                       Term(2, 1, RkInt(g, "DPS_consec", i)),
                       Term(2, 1, RkInt(g, "ni_consec", i)),
                       Term(3, 2, Rk(g, "ROE", i)),
                       Term(3, 2, Rk(g, "div_yield", i)),
                       Term(1, 1, OneMinus(RkFill(g, "debt_ratio", Rat(0, 1), i))),
                       Term(1, 2, RkInt(g, "F_score", i)),
                       Term(1, 2, OneMinus(RkClip(g, "PER", NaN, Rat(1, 1),
                                                  Rat(100, 1), i)))>>)
    IN  ScreenReturns(g, "dividend_score", Score, {})

-----------------------------------------------------------------------------
(* Claims about the sub-scores and the composite score.                    *)

\* the percentile-ranked factors: the sub-score column and its input column
RankedFactors ==
    {<<"S_PER", "PER">>, <<"S_PBR", "PBR">>, <<"S_ROE", "ROE">>,
     <<"S_rev_CAGR", "rev_CAGR">>, <<"S_op_CAGR", "op_CAGR">>,
     <<"S_ni_CAGR", "ni_CAGR">>, <<"S_margin", "margin_delta">>,
     <<"S_div_yield", "div_yield">>, <<"S_gap", "gap">>,
     <<"S_FCF_yield", "FCF_yield">>, <<"S_Q_rev_YoY", "Q_rev_YoY">>,
     <<"S_Q_op_YoY", "Q_op_YoY">>, <<"S_TTM_rev_YoY", "TTM_rev_YoY">>,
     <<"S_TTM_op_YoY", "TTM_op_YoY">>}

\* 0 <= x <= 100 for a defined float
InPercent(x) == FGE(x, Rat(0, 1)) /\ FLE(x, Rat(100, 1))

\* the scored table, once calc_valuation returned
Scored == IF pc = "calc_valuation" THEN result.value ELSE << >>

\* C12: in the table calc_valuation returns, the sub-score of every
\* percentile-ranked factor is undefined exactly in the rows whose input of
\* that factor is undefined and lies in [0, 100] in the other rows; the
\* sub-score of the quality score, whose input is always defined, lies in
\* [0, 100]; and the composite score is defined in every row.
C12_SubScoresKeepUndefined ==
    \A i \in DOMAIN Scored :
        LET r == Scored[i]
        IN  /\ \A f \in RankedFactors :
                  /\ isna(r[f[1]]) <=> isna(r[f[2]])
                  /\ notna(r[f[1]]) => InPercent(r[f[1]])
            /\ InPercent(r.S_F)
            /\ notna(r.composite)

\* a scored table of three tickers in which the ROE of one is undefined and
\* the ROE of another is defined, so that the ROE sub-score is undefined in
\* one row and defined in another
C12_Witness ==
    /\ Len(Scored) = 3
    /\ \E i, j \in DOMAIN Scored :
          /\ isna(Scored[i].ROE) /\ isna(Scored[i].S_ROE)
          /\ notna(Scored[i].PER) /\ notna(Scored[i].composite)
          /\ notna(Scored[j].ROE) /\ notna(Scored[j].S_ROE)

\* every input of the ranked factors of the composite score is defined
AllFactorInputsDefined(r) ==
    \A name \in {"PER", "PBR", "ROE", "rev_CAGR", "op_CAGR", "ni_CAGR",
                 "margin_delta", "div_yield", "gap", "FCF_yield"} :
        notna(r[name])

\* the ROE and the three CAGRs are undefined
MissingRoeAndCagr(r) ==
    isna(r.ROE) /\ isna(r.rev_CAGR) /\ isna(r.op_CAGR) /\ isna(r.ni_CAGR)

\* each row with every factor input defined that passes the Quality/Value
\* screen scores strictly above each row without ROE and CAGRs
ScoresAboveMissing(t) ==
    \A i, j \in DOMAIN t :
        AllFactorInputsDefined(t[i]) /\ QualityMask(t[i])
            /\ MissingRoeAndCagr(t[j])
        => FGT(t[i].composite, t[j].composite)

\* C13 as stated: in every scored table, a ticker with all factor inputs
\* defined that passes the Quality/Value screen has a composite score
\* strictly above every ticker whose ROE and CAGRs are undefined.
C13_ScoresAboveMissingAlways == ScoresAboveMissing(Scored)

\* C13: in the scored table of a universe of two tickers, a ticker with all
\* factor inputs defined that passes the Quality/Value screen has a
\* composite score strictly above the ticker whose ROE and CAGRs are
\* undefined.
C13_ScoresAboveMissingOfTwo == Len(Scored) = 2 => ScoresAboveMissing(Scored)

\* a scored table of two tickers, one with every input defined that passes
\* the screen and one without ROE and CAGRs but with a defined PER and
\* margin change
C13_Witness ==
    /\ Len(Scored) = 2
    /\ \E i, j \in DOMAIN Scored :
          /\ AllFactorInputsDefined(Scored[i]) /\ QualityMask(Scored[i])
          /\ MissingRoeAndCagr(Scored[j])
          /\ notna(Scored[j].PER) /\ notna(Scored[j].margin_delta)
          /\ FGT(Scored[j].composite, Rat(0, 1))

-----------------------------------------------------------------------------
(* Claim about the batch.                                                  *)

\* the tickers of the tables whose analysis raises
FailingTickers ==
    {t \in TickersOf(fs_df, ind_df) :
        AnalysisRaises(SliceOf(ind_df, t), SliceOf(fs_df, t))}

\* C18: analyze_all returns a table also when the analysis of a ticker
\* raises, and the table has a row for every ticker whose analysis does not
\* raise.
C18_BatchSurvivesFailure ==
    pc \in {"analyze_all", "raised"} =>
        /\ result.raised = ""
        /\ TickersOf(fs_df, ind_df) \ FailingTickers
             \subseteq {result.value[i].code : i \in DOMAIN result.value}

\* without a failing ticker the table has one row for each ticker
BatchWithoutFailure ==
    pc = "analyze_all" =>
        /\ FailingTickers = {}
        /\ Len(result.value) = Cardinality(TickersOf(fs_df, ind_df))
        /\ {result.value[i].code : i \in DOMAIN result.value}
             = TickersOf(fs_df, ind_df)

-----------------------------------------------------------------------------
(* Specification of the screens: each screen applied to a scored table of  *)
(* up to NumScreenRows rows, and then to its own return.  The rows are     *)
(* built from the figures of one sound ticker, changed in one respect, by  *)
(* the ratio and S-RIM columns of calc_valuation; amounts are in 1e8 won.  *)

NumScreenRows == 2

\* the figures of a ticker that passes every screen; the CAGRs are plain
\* percentages
SoundFigures ==
    [TTM_ni |-> Num(50), TTM_rev |-> Num(400), equity |-> Num(250),
     debt |-> Num(125), mktcap |-> Num(500), close |-> Num(500),
     shares |-> Num(1), DPS_latest |-> Num(10), DPS_CAGR |-> Num(10),
     DPS_consec |-> 1, TTM_OCF |-> Num(60), TTM_CAPEX |-> Num(35),
     TTM_FCF |-> Num(25), rev_CAGR |-> Num(20), op_CAGR |-> Num(20),
     ni_CAGR |-> Num(20), rev_consec |-> 2, ni_consec |-> 2,
     opm_latest |-> Num(15), margin_delta |-> Num(6), turnaround |-> 0,
     Q_rev_YoY |-> Num(10), Q_op_YoY |-> Num(10), Q_rev_consec |-> 2,
     F_score |-> 6, S_gap |-> Num(50), composite |-> Rat(500, 1)]

\* the changes of the first row of a table: the fields replaced
FirstRowChanges ==
    << << >>,
       [TTM_ni |-> NaN],
       [TTM_ni |-> Num(-6), ni_consec |-> 0, F_score |-> 4],
       [equity |-> NaN],
       [debt |-> NaN],
       [mktcap |-> NaN],
       [mktcap |-> Num(499)],
       [mktcap |-> Num(300)],
       [mktcap |-> Num(299)],
       [rev_CAGR |-> NaN],
       [op_CAGR |-> NaN],
       [rev_CAGR |-> NaN, op_CAGR |-> NaN],
       [rev_CAGR |-> Num(15), op_CAGR |-> Num(3)],
       [rev_CAGR |-> Num(14), op_CAGR |-> Num(14)],
       [rev_CAGR |-> Num(9)],
       [ni_CAGR |-> NaN],
       [ni_CAGR |-> Num(5)],
       [opm_latest |-> NaN, margin_delta |-> NaN],
       [opm_latest |-> Num(9)],
       [margin_delta |-> Num(0)],
       [margin_delta |-> Num(2), turnaround |-> 1, ni_consec |-> 0],
       [margin_delta |-> Num(2)],
       [DPS_latest |-> NaN, DPS_CAGR |-> NaN, DPS_consec |-> 0],
       [DPS_CAGR |-> NaN, DPS_consec |-> 0],
       [DPS_CAGR |-> Num(-5), DPS_consec |-> 0],
       [rev_consec |-> 1],
       [rev_consec |-> 0],
       [ni_consec |-> 1],
       [ni_consec |-> 0],
       [F_score |-> 5],
       [F_score |-> 4],
       [TTM_ni |-> Num(10)],
       [TTM_ni |-> Num(10), mktcap |-> Num(510)],
       [TTM_ni |-> Num(500), equity |-> Num(2500)],
       [TTM_ni |-> Num(1000), equity |-> Num(5000)],
       [TTM_ni |-> Num(1250), equity |-> Num(5000)],
       [equity |-> Num(50)],
       [equity |-> Num(40)],
       [equity |-> Num(1000)],
       [equity |-> Num(1250)],
       [TTM_OCF |-> Num(50)],
       [TTM_OCF |-> NaN, TTM_FCF |-> NaN],
       [composite |-> Rat(300, 1)],
       [composite |-> Rat(700, 1)] >>

\* the changes of the further rows of a table
OtherRowChanges ==
    << << >>, [composite |-> Rat(700, 1), rev_CAGR |-> Num(30)], [debt |-> NaN] >>

\* the technical columns of a row: none when calc_technical_indicators was
\* not applied, else its values, or NaN for a ticker without price history
TechColumns(tech) ==
    IF tech = "missing" THEN << >>
    ELSE IF tech = "nan"
    THEN [RSI_14 |-> NaN, MA20_gap |-> NaN, value_change |-> NaN,
          high52_gap |-> NaN]
    ELSE [RSI_14 |-> Num(55), MA20_gap |-> Num(1), value_change |-> Num(5),
          high52_gap |-> Num(-10)]

\* The scored row of the figures: the flags analyze_one_stock derives from
\* them (lines 476-480 and 636-639), then the ratio and S-RIM columns.
ScoredRow(code, changes, tech) ==
    LET f == [n \in DOMAIN SoundFigures |->
                 IF n \in DOMAIN changes THEN changes[n] ELSE SoundFigures[n]]
        a == f @@ [code |-> code,
                   margin_improved |->
                       IF FGT(f.margin_delta, Rat(0, 1)) THEN 1 ELSE 0,
                   margin_sharp |->
                       IF FGE(f.margin_delta, Rat(5, 1)) THEN 1 ELSE 0,
                   div_earnings_growth |->
                       IF f.ni_consec >= 2 /\ f.DPS_consec >= 1 THEN 1 ELSE 0]
        r == a @@ RatioColumns(a, 100000000)
    IN  r @@ SrimColumns(r) @@ TechColumns(tech)

\* the scored tables: a first row with any change, a second row with one of
\* the other changes, further rows unchanged
ScoredTables ==
    {[i \in 1..n |->
         ScoredRow(UniverseCodes[i],
                   IF i = 1 THEN FirstRowChanges[c]
                   ELSE IF i = 2 THEN OtherRowChanges[o] ELSE << >>,
                   tech)] :
        n \in 1..NumScreenRows, c \in DOMAIN FirstRowChanges,
        o \in DOMAIN OtherRowChanges, tech \in {"missing", "nan", "values"}}

InitScreens ==
    /\ pc = "start"
    /\ series_dict = << >>
    /\ q_data = NoTable
    /\ ind_df = NoTable
    /\ fs_df = NoTable
    /\ ind_grp = NoTable
    /\ fs_grp = NoTable
    /\ daily = NoTable
    /\ shares_df = NoTable
    /\ full_df \in ScoredTables
    /\ stored_df = NoTable
    /\ InitStores
    /\ result = [fn |-> "none"]

\* one screen applied to full_df: to the scored table, or to the screen's
\* own return once it was resubmitted
Screen(name, returns) ==
    /\ pc \in {"start", "resubmitted"}
    /\ pc = "resubmitted" => result.fn = name
    /\ \E ret \in returns : result' = ret @@ [fn |-> name]
    /\ pc' = IF pc = "start" THEN "screened" ELSE "rescreened"
    /\ UNCHANGED inputs

ApplyScreen == Screen("apply_screen", apply_screen(full_df))

ApplyMomentumScreen ==
    Screen("apply_momentum_screen", apply_momentum_screen(full_df))

ApplyGarpScreen == Screen("apply_garp_screen", apply_garp_screen(full_df))

ApplyCashcowScreen ==
    Screen("apply_cashcow_screen", apply_cashcow_screen(full_df))

ApplyTurnaroundScreen ==
    Screen("apply_turnaround_screen", apply_turnaround_screen(full_df))

ApplyDividendGrowthScreen ==
    Screen("apply_dividend_growth_screen",
           apply_dividend_growth_screen(full_df))

\* the return of a screen becomes the table of its next application
Resubmit ==
    /\ pc = "screened"
    /\ result.raised = ""
    /\ full_df' = result.rows
    /\ pc' = "resubmitted"
    /\ UNCHANGED <<loaded, stores, result>>

NextScreens ==
    \/ ApplyScreen
    \/ ApplyMomentumScreen
    \/ ApplyGarpScreen
    \/ ApplyCashcowScreen
    \/ ApplyTurnaroundScreen
    \/ ApplyDividendGrowthScreen
    \/ Resubmit

SpecScreens == InitScreens /\ [][NextScreens]_vars

-----------------------------------------------------------------------------
(* Claims about the screens.                                               *)

\* the ticker codes of the rows of a table
CodesOf(t) == {t[i].code : i \in DOMAIN t}

\* the fields the predicate of a screen reads that can be undefined
RequiredFields ==
    [apply_screen |-> {"TTM_ni", "ROE", "PER", "PBR", "mktcap"},
     apply_momentum_screen |-> {"rev_CAGR", "op_CAGR", "ROE", "TTM_ni", "mktcap"},
     apply_garp_screen |-> {"PEG", "rev_CAGR", "ROE", "PER", "mktcap", "TTM_ni"},
     apply_cashcow_screen |-> {"ROE", "opm", "debt_ratio", "mktcap", "TTM_ni"},
     apply_turnaround_screen |-> {"TTM_ni", "mktcap"},
     apply_dividend_growth_screen |->
         {"DPS_CAGR", "ROE", "div_yield", "mktcap", "TTM_ni"}]

\* a field the screen requires is undefined in the row
LacksRequired(fn, r) == \E f \in RequiredFields[fn] : isna(r[f])

\* C14: each of the six screens, applied to a scored table, returns instead
\* of raising, returns rows of the table only, and returns no row in which a
\* field required by its predicate is undefined.
C14_ScreensExcludeUndefined ==
    pc = "screened" =>
        /\ result.raised = ""
        /\ CodesOf(result.rows) \subseteq CodesOf(full_df)
        /\ \A j \in DOMAIN full_df :
              LacksRequired(result.fn, full_df[j])
              => full_df[j].code \notin CodesOf(result.rows)

\* C15: each of the six screens returns for every scored table, and applied
\* to its own return it returns the rows of the same tickers.
C15_ScreensIdempotent ==
    /\ pc = "screened" => result.raised = ""
    /\ pc = "rescreened" =>
          result.raised = "" /\ CodesOf(result.rows) = CodesOf(full_df)

\* a screen that returned selects the same tickers from its own return
ScreensIdempotentOnReturn ==
    pc = "rescreened" =>
        result.raised = "" /\ CodesOf(result.rows) = CodesOf(full_df)

\* the Quality/Value conditions on a row
QualityValueRow(r) ==
    /\ notna(r.TTM_ni) /\ AsRat(r.TTM_ni).n > 0
    /\ notna(r.ROE) /\ AsRat(r.ROE).n >= 5 * AsRat(r.ROE).d
    /\ notna(r.PER) /\ AsRat(r.PER).n >= AsRat(r.PER).d
                    /\ AsRat(r.PER).n <= 50 * AsRat(r.PER).d
    /\ notna(r.PBR) /\ 10 * AsRat(r.PBR).n >= AsRat(r.PBR).d
                    /\ AsRat(r.PBR).n <= 10 * AsRat(r.PBR).d
    /\ r.rev_consec >= 2
    /\ r.ni_consec >= 1
    /\ notna(r.mktcap) /\ AsRat(r.mktcap).n >= 500 * AsRat(r.mktcap).d
    /\ r.PER_flag # "warn"
    /\ r.F_score >= 5

\* C16: apply_screen returns exactly the rows with TTM net income > 0,
\* ROE >= 5, PER in [1, 50], PBR in [0.1, 10], revenue consecutive growth
\* >= 2, net-income consecutive growth >= 1, market cap >= 50,000,000,000
\* won (500 units), PER not flagged and quality score >= 5, each once, in
\* descending order of composite score.
C16_QualityValueScreen ==
    pc \in {"screened", "rescreened"} /\ result.fn = "apply_screen" =>
        /\ result.raised = ""
        /\ CodesOf(result.rows)
             = {full_df[j].code : j \in {k \in DOMAIN full_df :
                                           QualityValueRow(full_df[k])}}
        /\ \A i \in DOMAIN result.rows :
              \E j \in DOMAIN full_df : result.rows[i] = full_df[j]
        /\ \A i, j \in DOMAIN result.rows :
              /\ i # j => result.rows[i].code # result.rows[j].code
              /\ i < j => FGE(result.rows[i].composite, result.rows[j].composite)

\* apply_screen returned both rows of a table in the other order, the
\* second row having the higher composite score
C16_Witness ==
    /\ pc = "screened" /\ result.fn = "apply_screen"
    /\ Len(full_df) = 2 /\ Len(result.rows) = 2
    /\ result.rows[1].code = full_df[2].code
    /\ FGT(result.rows[1].composite, result.rows[2].composite)

\* apply_screen dropped the row of a ticker with a net loss and kept the
\* other row
C16_WitnessLoss ==
    /\ pc = "screened" /\ result.fn = "apply_screen"
    /\ Len(full_df) = 2 /\ Len(result.rows) = 1
    /\ FLT(full_df[1].TTM_ni, Rat(0, 1))
    /\ result.rows[1].code = full_df[2].code

\* the Momentum conditions on a row
MomentumRow(r) ==
    /\ \/ notna(r.rev_CAGR) /\ AsRat(r.rev_CAGR).n >= 15 * AsRat(r.rev_CAGR).d
       \/ notna(r.op_CAGR) /\ AsRat(r.op_CAGR).n >= 15 * AsRat(r.op_CAGR).d
    /\ r.margin_improved = 1
    /\ notna(r.ROE) /\ AsRat(r.ROE).n >= 5 * AsRat(r.ROE).d
    /\ notna(r.TTM_ni) /\ AsRat(r.TTM_ni).n > 0
    /\ notna(r.mktcap) /\ AsRat(r.mktcap).n >= 500 * AsRat(r.mktcap).d

\* C17: when apply_momentum_screen returns, it returns every row with
\* revenue CAGR >= 15 or operating-income CAGR >= 15, margin-improved flag
\* 1, ROE >= 5, TTM net income > 0 and market cap >= 50,000,000,000 won,
\* a row with one CAGR >= 15 and the other undefined included.
C17_MomentumAdmitsOneCagr ==
    pc = "screened" /\ result.fn = "apply_momentum_screen"
        /\ result.raised = "" =>
        \A j \in DOMAIN full_df :
            MomentumRow(full_df[j]) => full_df[j].code \in CodesOf(result.rows)

-----------------------------------------------------------------------------
(* Claim about absent data (SpecFScore).                                   *)

\* no row of the table carries an account of the key
AbsentFrom(t, key) ==
    ~\E i \in DOMAIN t :
        \E j \in DOMAIN EXACT_ACCOUNTS[key] :
            StartsWith(t[i].account, EXACT_ACCOUNTS[key][j])

\* the account of the key is in neither slice of the ticker
AbsentKey(key) == AbsentFrom(ind_grp, key) /\ AbsentFrom(fs_grp, key)

\* the fields of the three income accounts: name of the key, TTM figure,
\* quarterly YoY, quarterly streak, TTM YoY, CAGR, annual streak
IncomeFields(r) ==
    <<[key |-> "Revenue", ttm |-> r.TTM_rev, q_yoy |-> r.Q_rev_YoY,
       q_consec |-> r.Q_rev_consec, ttm_yoy |-> r.TTM_rev_YoY,
       cagr |-> r.rev_CAGR, consec |-> r.rev_consec],
      [key |-> "OpIncome", ttm |-> r.TTM_op, q_yoy |-> r.Q_op_YoY,
       q_consec |-> r.Q_op_consec, ttm_yoy |-> r.TTM_op_YoY,
       cagr |-> r.op_CAGR, consec |-> r.op_consec],
      [key |-> "NetIncome", ttm |-> r.TTM_ni, q_yoy |-> r.Q_ni_YoY,
       q_consec |-> r.Q_ni_consec, ttm_yoy |-> r.TTM_ni_YoY,
       cagr |-> r.ni_CAGR, consec |-> r.ni_consec]>>

\* every field of the record that depends on an absent account is undefined
\* (amounts, rates) or 0 (counts, flags)
DegradesIndependently(r) ==
    /\ \A i \in 1..3 :
          LET f == IncomeFields(r)[i]
          IN  AbsentFrom(ind_grp, f.key) =>
                  /\ isna(f.ttm) /\ isna(f.q_yoy) /\ isna(f.ttm_yoy)
                  /\ isna(f.cagr)
                  /\ f.q_consec = 0 /\ f.consec = 0
    /\ AbsentFrom(ind_grp, "Revenue") =>
          /\ r.TTM_source = "none" /\ r.data_years = 0
          /\ r.F8 = 0 /\ r.F9 = 0
    /\ (AbsentFrom(ind_grp, "Revenue") \/ AbsentFrom(ind_grp, "OpIncome")) =>
          /\ isna(r.opm_latest) /\ isna(r.opm_prev) /\ isna(r.margin_delta)
          /\ r.margin_improved = 0 /\ r.margin_sharp = 0
    /\ AbsentFrom(ind_grp, "NetIncome") =>
          /\ r.ni_prev_negative = 0 /\ r.ni_curr_positive = 0
          /\ r.turnaround = 0 /\ r.div_earnings_growth = 0
          /\ r.F1 = 0 /\ r.F3 = 0 /\ r.F4 = 0
    /\ AbsentKey("OpCF") =>
          /\ isna(r.TTM_OCF) /\ isna(r.OCF_CAGR) /\ r.OCF_consec = 0
          /\ isna(r.TTM_FCF) /\ isna(r.FCF_CAGR)
          /\ r.F2 = 0 /\ r.F4 = 0
    /\ AbsentKey("CAPEX") =>
          isna(r.TTM_CAPEX) /\ isna(r.TTM_FCF) /\ isna(r.FCF_CAGR)
    /\ AbsentKey("Equity") => isna(r.equity) /\ r.F5 = 0
    /\ AbsentKey("Debt") => isna(r.debt) /\ r.F5 = 0
    /\ AbsentKey("TotalAssets") =>
          isna(r.total_assets) /\ r.F3 = 0 /\ r.F9 = 0
    /\ (AbsentFrom(fs_grp, "CurAssets") \/ AbsentFrom(fs_grp, "CurLiab")) =>
          r.F6 = 0
    /\ AbsentFrom(fs_grp, "GrossProfit") => r.F8 = 0
    /\ AbsentFrom(ind_grp, "Dividend") =>
          /\ isna(r.DPS_latest) /\ isna(r.DPS_CAGR) /\ r.DPS_consec = 0
          /\ r.div_earnings_growth = 0
    /\ GroupRows(ind_grp, "RATIO_Q") = << >> => r.latest_quarter = NoDate
    /\ (ind_grp = << >> /\ fs_grp = << >>) => r.F_score = 0

\* C19: analyze_one_stock returns a record for every combination of empty
\* and non-empty indicator and statement slices, both empty and single
\* accounts missing included; the record carries the ticker code, and every
\* field whose account is absent is undefined or 0.
C19_AbsentDataDegrades ==
    pc = "analyze_one_stock" =>
        /\ result.fn = "analyze_one_stock"
        /\ result.value.code = Ticker
        /\ DegradesIndependently(result.value)

\* both slices are empty and the record was returned
C19_Witness ==
    /\ pc = "analyze_one_stock"
    /\ ind_grp = << >> /\ fs_grp = << >>
    /\ result.value.code = Ticker
    /\ result.value.F_score = 0

\* the indicator slice is empty, the statements are not, and the record
\* carries the balance-sheet figures
C19_WitnessStatementsOnly ==
    /\ pc = "analyze_one_stock"
    /\ ind_grp = << >> /\ fs_grp # << >>
    /\ isna(result.value.TTM_rev)
    /\ notna(result.value.equity)

\* the statement slice is empty, the indicators are not, and the record
\* carries the income figures
C19_WitnessIndicatorsOnly ==
    /\ pc = "analyze_one_stock"
    /\ ind_grp # << >> /\ fs_grp = << >>
    /\ notna(result.value.TTM_ni)
    /\ isna(result.value.equity)

-----------------------------------------------------------------------------
(* Loading of the stored tables.                                           *)
(*                                                                         *)
(* A stored table is the record of its column names (code 종목코드, date      *)
(* 기준일, value 값) and its rows.  A cell is NaN (None or NaN), a number      *)
(* Num(x), or a text Text(s), s the sequence of its characters; str() of a *)
(* text is the text itself.  The field of a row for a column the table     *)
(* lacks is NaN and is never read.  Dates of a stored table are texts,     *)
(* "YYYY-MM-DD" with or without a time of day.                             *)

\* the most rows of a stored table
NumLoadRows == 2

Text(s) == [nan |-> FALSE, text |-> s]

RECURSIVE lstrip(_)
lstrip(s) == IF s # << >> /\ Head(s) = " " THEN lstrip(Tail(s)) ELSE s

RECURSIVE rstrip(_)
rstrip(s) ==
    IF s # << >> /\ s[Len(s)] = " " THEN rstrip(SubSeq(s, 1, Len(s) - 1)) ELSE s

\* s.strip()
strip(s) == rstrip(lstrip(s))

\* s.split('.')[0] if '.' in s else s
BeforeDot(s) ==
    LET dots == {i \in DOMAIN s : s[i] = "."}
    IN  IF dots = {} THEN s ELSE SubSeq(s, 1, Min(dots) - 1)

\* s.zfill(width): zeros on the left up to the width, after a leading sign;
\* a longer text is returned as it is
zfill(s, width) ==
    IF Len(s) >= width THEN s
    ELSE LET pad == [i \in 1..(width - Len(s)) |-> "0"]
         IN  IF s # << >> /\ s[1] \in {"+", "-"}
             THEN <<s[1]>> \o pad \o Tail(s)
             ELSE pad \o s

normalize_code(x) ==
    IF isna(x) THEN NaN
    ELSE IF strip(x.text) = << >> THEN NaN
    ELSE Text(zfill(BeforeDot(strip(x.text)), 6))

DigitChars == <<"0", "1", "2", "3", "4", "5", "6", "7", "8", "9">>

RECURSIVE ParseDigits(_)
\* the number a text of decimal digits denotes
ParseDigits(s) ==
    IF s = << >> THEN 0
    ELSE 10 * ParseDigits(SubSeq(s, 1, Len(s) - 1))
         + (CHOOSE d \in 0..9 : DigitChars[d + 1] = s[Len(s)])

\* pd.to_numeric(cell, errors='coerce') for a number, a text of digits, or a
\* text that is no number
to_numeric(x) ==
    IF isna(x) THEN NaN
    ELSE IF "v" \in DOMAIN x THEN x
    ELSE IF x.text # << >> /\ Range(x.text) \subseteq Range(DigitChars)
         THEN Num(ParseDigits(x.text))
    ELSE NaN

\* str(cell)[:10] of a text
First10(x) == Text(SubSeq(x.text, 1, IF Len(x.text) < 10 THEN Len(x.text) ELSE 10))

load_table(df) ==
    IF df.rows = << >> THEN df
    ELSE
      LET coded ==
              IF "code" \in df.columns
              THEN SelectSeq([i \in DOMAIN df.rows |->
                                 [df.rows[i] EXCEPT !.code = normalize_code(@)]],
                             LAMBDA r : notna(r.code))
              ELSE df.rows
          dated ==
              IF "date" \in df.columns
              THEN [i \in DOMAIN coded |-> [coded[i] EXCEPT !.date = First10(@)]]
              ELSE coded
          numbered ==
              IF "value" \in df.columns
              THEN [i \in DOMAIN dated |->
                       [dated[i] EXCEPT !.value = to_numeric(@)]]
              ELSE dated
      IN  [columns |-> df.columns, rows |-> numbered]

-----------------------------------------------------------------------------
(* Specification of the loading.                                           *)

\* "2023-12-31"
DayText == <<"2", "0", "2", "3", "-", "1", "2", "-", "3", "1">>

\* "2023-12-31 00:00:00"
DayTimeText == DayText \o <<" ", "0", "0", ":", "0", "0", ":", "0", "0">>

\* stored codes: missing, "", " ", "5930", " 5930 ", "005930", "5930.0",
\* ".5", "-1", "1234567"
StoredCodes ==
    {NaN, Text(<< >>), Text(<<" ">>), Text(<<"5", "9", "3", "0">>),
     Text(<<" ", "5", "9", "3", "0", " ">>),
     Text(<<"0", "0", "5", "9", "3", "0">>),
     Text(<<"5", "9", "3", "0", ".", "0">>), Text(<<".", "5">>),
     Text(<<"-", "1">>), Text(<<"1", "2", "3", "4", "5", "6", "7">>)}

\* stored values: missing, 5, "12", "N/A"
StoredValues == {NaN, Num(5), Text(<<"1", "2">>), Text(<<"N", "/", "A">>)}

\* the rows of a stored table with all three columns: every code with a
\* plain date and a number, and every value and date with a plain code
StoredRows ==
    {[code |-> c, date |-> Text(DayText), value |-> Num(5)] : c \in StoredCodes}
    \cup {[code |-> Text(<<"5", "9", "3", "0">>), date |-> Text(d), value |-> v] :
             d \in {DayText, DayTimeText}, v \in StoredValues}

\* the row of a table that has the columns cs only
OnColumns(r, cs) ==
    [code |-> IF "code" \in cs THEN r.code ELSE NaN,
     date |-> IF "date" \in cs THEN r.date ELSE NaN,
     value |-> IF "value" \in cs THEN r.value ELSE NaN]

StoredTables ==
    {[columns |-> cs, rows |-> [i \in DOMAIN rs |-> OnColumns(rs[i], cs)]] :
        cs \in {{"code", "date", "value"}, {"code", "value"}, {"date", "value"},
                {"code"}},
        rs \in UNION {[1..n -> StoredRows] : n \in 0..NumLoadRows}}

InitLoad ==
    /\ pc = "start"
    /\ stored_df \in StoredTables
    /\ series_dict = << >>
    /\ q_data = NoTable
    /\ ind_df = NoTable
    /\ fs_df = NoTable
    /\ ind_grp = NoTable
    /\ fs_grp = NoTable
    /\ daily = NoTable
    /\ shares_df = NoTable
    /\ full_df = NoTable
    /\ InitStores
    /\ result = [fn |-> "none"]

LoadTable ==
    /\ pc = "start"
    /\ pc' = "load_table"
    /\ result' = [fn |-> "load_table", value |-> load_table(stored_df)]
    /\ UNCHANGED inputs

NextLoad == LoadTable

SpecLoad == InitLoad /\ [][NextLoad]_vars

-----------------------------------------------------------------------------
(* Claim about the loading (SpecLoad).                                     *)

\* the rows of the stored table whose code is a text that is not blank
RowsWithCode ==
    SelectSeq(stored_df.rows,
              LAMBDA r : notna(r.code) /\ strip(r.code.text) # << >>)

\* the code of a stored row, stripped and cut at the first dot
CoreOf(r) == BeforeDot(strip(r.code.text))

\* the rows of the stored table whose code can be brought to six characters
Normalizable == SelectSeq(RowsWithCode, LAMBDA r : Len(CoreOf(r)) <= 6)

\* C20: after load_table every code of the table has exactly 6 characters,
\* zeros filling it on the left, and the rows kept are the rows of the
\* stored table whose code is neither missing, nor empty, nor longer than 6
\* characters after stripping.
C20_CodesSixCharacters ==
    (pc = "load_table" /\ "code" \in stored_df.columns) =>
        LET rows == result.value.rows
        IN  /\ Len(rows) = Len(Normalizable)
            /\ \A i \in DOMAIN rows :
                  /\ notna(rows[i].code)
                  /\ Len(rows[i].code.text) = 6
                  /\ rows[i].code.text = zfill(CoreOf(Normalizable[i]), 6)

\* what the code keeps: every row whose code is a text that is not blank,
\* its code at least 6 characters long, and exactly 6 unless the stripped
\* code was longer
LoadTableCodesAtLeastSix ==
    (pc = "load_table" /\ "code" \in stored_df.columns) =>
        LET rows == result.value.rows
        IN  /\ Len(rows) = Len(RowsWithCode)
            /\ \A i \in DOMAIN rows :
                  /\ notna(rows[i].code)
                  /\ Len(rows[i].code.text) >= 6
                  /\ Len(CoreOf(RowsWithCode[i])) <= 6
                        => Len(rows[i].code.text) = 6
                  /\ rows[i].code.text = zfill(CoreOf(RowsWithCode[i]), 6)

\* dates are cut to the day and values that are no numbers become undefined
LoadTableDatesAndValues ==
    pc = "load_table" =>
        \A i \in DOMAIN result.value.rows :
            LET r == result.value.rows[i]
            IN  /\ "date" \in stored_df.columns => r.date = Text(DayText)
                /\ "value" \in stored_df.columns =>
                      r.value \in {NaN, Num(5), Num(12)}

-----------------------------------------------------------------------------
(* Specification of the account lookup: find_account_value applied to one  *)
(* table of a ticker for the key Revenue.                                  *)

\* the most rows of a lookup table that take any label, date and value
NumFindRows == 3

\* an exact label, a second exact label, a label that starts with an exact
\* one, such a label with an exclusion marker, and a label of another key
FindLabels ==
    {<<"rev">>, <<"oprev">>, <<"rev", "domestic">>, <<"rev", "growth_rate">>,
     <<"opinc">>}

\* the lookup tables: row i holds the value i or NaN, so that an entry of
\* the result names the row it was taken from; a row past the second has a
\* value and the latest date, a row past the third a curated label too
FindTables ==
    UNION {{[i \in 1..n |->
                IndRow(Ticker,
                       IF i <= 2 /\ old[i] THEN PrevYearEnd ELSE LastYearEnd,
                       "RATIO_Y",
                       IF i <= 3 THEN lab[i] ELSE <<"rev">>,
                       IF i <= 2 /\ nan[i] THEN NaN ELSE Num(i))] :
               lab \in [1..(IF n < 3 THEN n ELSE 3) -> FindLabels],
               old \in [1..(IF n < 2 THEN n ELSE 2) -> BOOLEAN],
               nan \in [1..(IF n < 2 THEN n ELSE 2) -> BOOLEAN]} :
           n \in 0..NumFindRows}

InitFind ==
    /\ pc = "start"
    /\ q_data \in FindTables
    /\ series_dict = << >>
    /\ ind_df = NoTable
    /\ fs_df = NoTable
    /\ ind_grp = NoTable
    /\ fs_grp = NoTable
    /\ daily = NoTable
    /\ shares_df = NoTable
    /\ full_df = NoTable
    /\ stored_df = NoTable
    /\ InitStores
    /\ result = [fn |-> "none"]

FindAccountValue ==
    /\ pc = "start"
    /\ pc' = "find_account_value"
    /\ \E date_filter \in {NoFilter, OnDates({LastYearEnd})} :
          result' = [fn |-> "find_account_value", date_filter |-> date_filter,
                     value |-> find_account_value(q_data, "Revenue", date_filter)]
    /\ UNCHANGED inputs

NextFind == FindAccountValue

SpecFind == InitFind /\ [][NextFind]_vars

-----------------------------------------------------------------------------
(* Claim about the account lookup (SpecFind).                              *)

\* the rows of the table within the date filter of the call
FindWork ==
    {i \in DOMAIN q_data :
        result.date_filter.none \/ q_data[i].date \in result.date_filter.dates}

\* the rows of FindWork whose label is one of the curated labels of Revenue
FindExact == {i \in FindWork : q_data[i].account \in Range(EXACT_ACCOUNTS.Revenue)}

\* the rows of FindWork whose label starts with a curated label of Revenue
FindPrefixed ==
    {i \in FindWork :
        \E j \in DOMAIN EXACT_ACCOUNTS.Revenue :
            StartsWith(q_data[i].account, EXACT_ACCOUNTS.Revenue[j])}

\* the label of the row holds an exclusion marker
HasMarker(i) == Range(q_data[i].account) \cap Range(EXCLUDE_KEYWORDS) # {}

\* the rows the lookup may take values from
FindSource ==
    IF FindExact # {} THEN FindExact
    ELSE {i \in FindPrefixed : ~HasMarker(i)}

\* the first row of FindSource on each date, where it has a value
FindFirsts ==
    {i \in FindSource :
        /\ \A j \in FindSource : q_data[j].date = q_data[i].date => i <= j
        /\ notna(q_data[i].value)}

\* C21: find_account_value returns at most one value per date; the values
\* are those of rows with a curated label when the table (within the date
\* filter) has such a row, else of rows whose label starts with a curated
\* label and holds no exclusion marker; per date the first such row counts;
\* an empty table gives an empty mapping.
C21_LookupContract ==
    pc = "find_account_value" =>
        LET d == result.value
        IN  /\ \A i, j \in DOMAIN d : d[i].k = d[j].k => i = j
            /\ {<<d[i].k, d[i].v>> : i \in DOMAIN d}
                  = {<<q_data[i].date, q_data[i].value.v>> : i \in FindFirsts}
            /\ (FindExact = {} =>
                   \A i \in DOMAIN d :
                       \A j \in FindPrefixed :
                           (HasMarker(j) /\ notna(q_data[j].value))
                               => d[i].v # q_data[j].value.v)
            /\ (q_data = << >> => d = << >>)

\* no row has a curated label, a row with a growth-rate label and a row
\* with a plain prefixed label both have values, and the lookup returned
\* the plain one only
C21_Witness ==
    /\ pc = "find_account_value"
    /\ FindExact = {}
    /\ \E i \in FindPrefixed : HasMarker(i) /\ notna(q_data[i].value)
    /\ Len(result.value) = 1

\* a curated label and a prefixed label are on the same date, the prefixed
\* one first, and the lookup returned the curated one
C21_WitnessExactFirst ==
    /\ pc = "find_account_value"
    /\ Len(q_data) = 2
    /\ q_data[1].account = <<"rev", "domestic">> /\ notna(q_data[1].value)
    /\ q_data[2].account = <<"rev">> /\ notna(q_data[2].value)
    /\ q_data[1].date = q_data[2].date
    /\ result.date_filter.none
    /\ result.value = <<[k |-> q_data[2].date, v |-> 2]>>

-----------------------------------------------------------------------------
(* Specification of the cash flows: analyze_one_stock on a ticker with     *)
(* operating cash flow and capex on some of the year ends, each in the     *)
(* indicators or in the annual statements.                                 *)

\* number of year ends of the cash-flow tables
NumCashYears == 3

CashYears == {(2020 + i) * 10000 + 1231 : i \in 1..NumCashYears}

\* operating cash flow of a year: ten times the number of the year, so that
\* a free cash flow names the year of its operating cash flow
OcfOf(d) == Num(10 * (Year(d) - 2020))

\* capex as an outflow or as a magnitude
CapexValues == {Num(-2), Num(3)}

\* the rows of an account in the indicators ("ind") or the statements
CashRows(place, ind_account, f) ==
    IF place = "ind" THEN AccountRows(Ticker, "RATIO_Y", ind_account, f)
    ELSE FsAccountRows(Ticker, ind_account, f)

InitCashFlow ==
    /\ pc = "start"
    /\ \E ocf_years \in SUBSET CashYears,
          capex \in PartialFns(CashYears, CapexValues),
          ocf_place \in {"ind", "fs"}, capex_place \in {"ind", "fs"} :
          LET ocf == [d \in ocf_years |-> OcfOf(d)]
              Rows(place) ==
                  (IF ocf_place = place
                   THEN CashRows(place, <<"opact", "cashflow">>, ocf)
                   ELSE << >>)
                  \o (IF capex_place = place
                      THEN CashRows(place, <<"ppe", "of", "acq">>, capex)
                      ELSE << >>)
          IN  /\ ind_grp = Rows("ind")
              /\ fs_grp = Rows("fs")
    /\ ind_df = ind_grp
    /\ fs_df = fs_grp
    /\ series_dict = << >>
    /\ q_data = NoTable
    /\ daily = NoTable
    /\ shares_df = NoTable
    /\ full_df = NoTable
    /\ stored_df = NoTable
    /\ InitStores
    /\ result = [fn |-> "none"]

NextCashFlow == AnalyzeOneStock

SpecCashFlow == InitCashFlow /\ [][NextCashFlow]_vars

-----------------------------------------------------------------------------
(* Claim about the cash flows (SpecCashFlow).                              *)

\* the rows of the ticker that carry the account, of both tables
CashRowsOf(account) ==
    SelectSeq(ind_grp, LAMBDA r : r.account = account)
    \o SelectSeq(fs_grp, LAMBDA r : r.account = account)

\* the value of the account per date
CashSeries(account) ==
    LET rows == CashRowsOf(account)
    IN  [d \in {rows[i].date : i \in DOMAIN rows} |->
            rows[CHOOSE i \in DOMAIN rows : rows[i].date = d].value.v]

\* the free cash flow per year that has both operating cash flow and capex:
\* operating cash flow minus the magnitude of capex
FcfAsClaimed ==
    LET ocf == CashSeries(<<"opact", "cashflow">>)
        capex == CashSeries(<<"ppe", "of", "acq">>)
    IN  [d \in DOMAIN ocf \cap DOMAIN capex |->
            ocf[d] - (IF capex[d] < 0 THEN -capex[d] ELSE capex[d])]

\* C22: capex is kept as a magnitude and free cash flow exists for the years
\* that have both operating cash flow and capex, as their difference: the
\* TTM capex is the magnitude of the latest capex (so >= 0), the TTM FCF is
\* the free cash flow of the latest common year, and the FCF CAGR is the
\* CAGR of the series over the common years.
C22_CapexMagnitudeAndFcf ==
    pc = "analyze_one_stock" =>
        LET r == result.value
            capex == CashSeries(<<"ppe", "of", "acq">>)
            fcf == FcfAsClaimed
            last == Max(DOMAIN capex)
        IN  /\ IF DOMAIN capex = {} THEN isna(r.TTM_CAPEX)
               ELSE /\ notna(r.TTM_CAPEX) /\ r.TTM_CAPEX.v >= 0
                    /\ r.TTM_CAPEX.v \in {capex[last], -capex[last]}
            /\ IF DOMAIN fcf = {} THEN isna(r.TTM_FCF)
               ELSE r.TTM_FCF = Num(fcf[Max(DOMAIN fcf)])
            /\ r.FCF_CAGR = calc_cagr(DictOf(fcf), 2)

\* the latest capex is an outflow in a year without operating cash flow, an
\* earlier year has both, and the record was returned
C22_Witness ==
    /\ pc = "analyze_one_stock"
    /\ LET capex == CashSeries(<<"ppe", "of", "acq">>)
           fcf == FcfAsClaimed
       IN  /\ DOMAIN capex # {} /\ DOMAIN fcf # {}
           /\ capex[Max(DOMAIN capex)] < 0
           /\ Max(DOMAIN fcf) < Max(DOMAIN capex)
           /\ result.value.TTM_CAPEX = Num(2)
           /\ notna(result.value.TTM_FCF)

-----------------------------------------------------------------------------
(* Claim about the intrinsic value (SpecFScore).                           *)

\* the quotients x and y are the same number
RatEq(x, y) == x.n * y.d = y.n * x.d

\* the intrinsic value of a valued row as the rule states it, on quotients:
\* "above" BPS + BPS * (ROE - 8) / 8, "floor" BPS * 0.9, "none" undefined
SrimCase(r) ==
    IF isna(r.BPS) \/ ~RatGT(AsRat(r.BPS), Rat(0, 1)) THEN "none"
    ELSE IF notna(r.ROE) /\ RatGT(AsRat(r.ROE), Rat(8, 1)) THEN "above"
    ELSE "floor"

SrimAsClaimed(r) ==
    LET b == AsRat(r.BPS)
    IN  IF SrimCase(r) = "above"
        THEN RatAdd(b, RatDiv(RatMul(b, RatSub(AsRat(r.ROE), Rat(8, 1))),
                              Rat(8, 1)))
        ELSE RatMul(b, Rat(9, 10))

\* C23: the intrinsic value of calc_valuation is BPS + BPS * (ROE% - 8) / 8
\* when ROE% > 8 and BPS > 0, BPS * 0.9 when BPS > 0 and ROE% is not above 8
\* or undefined, and undefined when BPS is not positive or undefined; a
\* defined intrinsic value is at least 0.9 * BPS.
C23_IntrinsicValue ==
    pc = "calc_valuation" =>
        \A i \in DOMAIN result.value :
            LET r == result.value[i]
            IN  /\ IF SrimCase(r) = "none" THEN isna(r.SRIM)
                   ELSE notna(r.SRIM) /\ RatEq(AsRat(r.SRIM), SrimAsClaimed(r))
                /\ notna(r.SRIM) =>
                      ~RatGT(RatMul(AsRat(r.BPS), Rat(9, 10)), AsRat(r.SRIM))

\* a row above the cost of equity, its intrinsic value above its BPS
C23_Witness ==
    /\ pc = "calc_valuation"
    /\ \E i \in DOMAIN result.value :
          /\ SrimCase(result.value[i]) = "above"
          /\ RatGT(AsRat(result.value[i].SRIM), AsRat(result.value[i].BPS))

\* a row with a defined ROE that is not above the cost of equity
C23_WitnessFloor ==
    /\ pc = "calc_valuation"
    /\ \E i \in DOMAIN result.value :
          /\ notna(result.value[i].ROE)
          /\ SrimCase(result.value[i]) = "floor"

\* a row whose ROE is undefined while its BPS is positive
C23_WitnessUndefinedRoe ==
    /\ pc = "calc_valuation"
    /\ \E i \in DOMAIN result.value :
          /\ isna(result.value[i].ROE)
          /\ SrimCase(result.value[i]) = "floor"

\* a row without a positive BPS
C23_WitnessNoBps ==
    /\ pc = "calc_valuation"
    /\ \E i \in DOMAIN result.value : SrimCase(result.value[i]) = "none"

-----------------------------------------------------------------------------
(* Specification of the capital structure: analyze_one_stock on a ticker   *)
(* with equity and liabilities in the statements, in the annual            *)
(* indicators, in both or in neither.                                      *)

\* number of year ends of the capital-structure tables
NumCapitalYears == 2

CapitalYears == {(2021 + i) * 10000 + 1231 : i \in 1..NumCapitalYears}

\* the values of an item on any set of the year ends: base plus the number
\* of the year, so that a value names its table, item and year
CapitalShapes(base) ==
    {[d \in S |-> Num(base + Year(d) - 2021)] : S \in SUBSET CapitalYears}

InitCapital ==
    /\ pc = "start"
    /\ \E fe \in CapitalShapes(100), fd \in CapitalShapes(200),
          ie \in CapitalShapes(300), id \in CapitalShapes(400) :
          /\ fs_grp = FsAccountRows(Ticker, <<"equity">>, fe)
                      \o FsAccountRows(Ticker, <<"debt">>, fd)
          /\ ind_grp = AccountRows(Ticker, "RATIO_Y", <<"equity">>, ie)
                       \o AccountRows(Ticker, "RATIO_Y", <<"debt">>, id)
    /\ ind_df = ind_grp
    /\ fs_df = fs_grp
    /\ series_dict = << >>
    /\ q_data = NoTable
    /\ daily = NoTable
    /\ shares_df = NoTable
    /\ full_df = NoTable
    /\ stored_df = NoTable
    /\ InitStores
    /\ result = [fn |-> "none"]

NextCapital == AnalyzeOneStock

SpecCapital == InitCapital /\ [][NextCapital]_vars

-----------------------------------------------------------------------------
(* Claim about the capital structure (SpecCapital).                        *)

\* the value of the item on the latest date of the statements, NaN when the
\* statements have no row of the item on that date
StatementItem(account) ==
    LET last == Max({fs_grp[i].date : i \in DOMAIN fs_grp})
        rows == SelectSeq(fs_grp,
                          LAMBDA r : r.account = account /\ r.date = last)
    IN  IF fs_grp = << >> \/ rows = << >> THEN NaN ELSE rows[1].value

\* the value of the item on its latest date in the indicators, NaN when the
\* indicators have no row of the item
IndicatorItem(account) ==
    LET rows == SelectSeq(ind_grp, LAMBDA r : r.account = account)
        last == Max({rows[i].date : i \in DOMAIN rows})
    IN  IF rows = << >> THEN NaN
        ELSE rows[CHOOSE i \in DOMAIN rows : rows[i].date = last].value

\* the statement value of the item, else its indicator value
PreferStatement(account) ==
    IF notna(StatementItem(account)) THEN StatementItem(account)
    ELSE IndicatorItem(account)

\* C24: equity and liabilities are each the most recent statement value
\* when the statements have the item, and each the indicator value when
\* they do not; liabilities come from the indicators when the statements
\* give equity but no liabilities.
C24_EachItemFallsBack ==
    pc = "analyze_one_stock" =>
        /\ result.value.equity = PreferStatement(<<"equity">>)
        /\ result.value.debt = PreferStatement(<<"debt">>)

\* what lines 407-422 do: the indicators are read only when the statements
\* give no equity, and then they replace the liabilities of the statements
\* as well
CapitalFallsBackOnEquity ==
    pc = "analyze_one_stock" =>
        LET use_ind == isna(StatementItem(<<"equity">>)) /\ ind_grp # << >>
        IN  /\ result.value.equity = PreferStatement(<<"equity">>)
            /\ result.value.debt
                  = IF use_ind /\ notna(IndicatorItem(<<"debt">>))
                    THEN IndicatorItem(<<"debt">>)
                    ELSE StatementItem(<<"debt">>)

\* the statements give equity and no liabilities, the indicators give
\* liabilities, and the record has none
CapitalDebtLost ==
    /\ pc = "analyze_one_stock"
    /\ notna(StatementItem(<<"equity">>))
    /\ isna(StatementItem(<<"debt">>))
    /\ notna(IndicatorItem(<<"debt">>))
    /\ isna(result.value.debt)

-----------------------------------------------------------------------------
(* Persistence of the scored table (db.py).                                *)
(*                                                                         *)
(* dashboard_result is the stored table of that name: whether it exists,   *)
(* and its rows.  A row of a scored table is kept as its code and its      *)
(* composite score.                                                        *)

\* the most rows of a scored table handed to save_dashboard
NumDashRows == 2

\* the most calls of save_dashboard in a behaviour
NumSaves == 3

DashRows == {[code |-> c, composite |-> x] : c \in {"000001", "000002"},
                                             x \in {Num(500), Num(700)}}

DashTables == UNION {[1..n -> DashRows] : n \in 0..NumDashRows}

\* lines 230-238
save_dashboard(df, stored) ==
    IF df = << >> THEN stored
    ELSE [exists |-> TRUE, rows |-> df]

\* lines 269-275
load_dashboard(stored) == IF stored.exists THEN stored.rows ELSE << >>

InitDashboard ==
    /\ pc = "start"
    /\ dashboard_result = [exists |-> FALSE, rows |-> << >>]
    /\ batch_log = << >>
    /\ session = [pending |-> {}, committed |-> {}, batch_logs |-> << >>]
    /\ stocks = << >>
    /\ success_count = 0
    /\ stored_df = NoTable
    /\ series_dict = << >>
    /\ q_data = NoTable
    /\ ind_df = NoTable
    /\ fs_df = NoTable
    /\ ind_grp = NoTable
    /\ fs_grp = NoTable
    /\ daily = NoTable
    /\ shares_df = NoTable
    /\ full_df = NoTable
    /\ result = [fn |-> "none", calls |-> 0]

\* one run's save of its scored table
SaveDashboard ==
    /\ result.calls < NumSaves
    /\ pc' = "save_dashboard"
    /\ \E df \in DashTables :
          /\ full_df' = df
          /\ dashboard_result' = save_dashboard(df, dashboard_result)
    /\ result' = [fn |-> "save_dashboard", calls |-> result.calls + 1]
    /\ UNCHANGED <<loaded, batch_log, session, stocks, success_count>>

NextDashboard == SaveDashboard

SpecDashboard == InitDashboard /\ [][NextDashboard]_vars

-----------------------------------------------------------------------------
(* Claim about the persistence (SpecDashboard).                            *)

\* C25: after save_dashboard(df) returns, the stored dashboard table holds
\* exactly the rows of df and no row of an earlier run, for every df, the
\* empty one included.
C25_SaveReplacesAll ==
    pc = "save_dashboard" => load_dashboard(dashboard_result) = full_df

\* what lines 230-238 do: a table with rows replaces the stored table, and
\* an empty table leaves the stored table as it was
SaveReplacesUnlessEmpty ==
    [][pc' = "save_dashboard" =>
          IF full_df' # << >>
          THEN load_dashboard(dashboard_result') = full_df'
          ELSE dashboard_result' = dashboard_result]_vars

\* an empty table was saved after a run with rows, and the rows of that
\* run are still stored
SaveKeptEarlierRows ==
    /\ pc = "save_dashboard"
    /\ full_df = << >>
    /\ load_dashboard(dashboard_result) # << >>

-----------------------------------------------------------------------------
(* Claim about the latest quarterly YoY (SpecYoy).                         *)

\* the most recent quarter of the quarterly table, the date that
\* analyze_one_stock reports as q_dates_sorted[-1]
MostRecentQuarter == Max({q_data[i].date : i \in DOMAIN q_data})

\* the YoY of quarter d in the returned series, undefined when it has none
YoyAt(yoy_series, d) ==
    IF DictHas(yoy_series, d) THEN DictGet(yoy_series, d) ELSE NaN

\* C26: the latest YoY that calc_quarterly_yoy returns is the YoY of the
\* most recent quarter of the table; when that quarter has no defined YoY
\* the latest YoY is undefined, never the YoY of an older quarter.
C26_LatestYoyOfMostRecentQuarter ==
    (pc = "calc_quarterly_yoy" /\ q_data # << >>) =>
        result.value.latest_yoy =
            YoyAt(result.value.yoy_series, MostRecentQuarter)

\* what the code returns: the YoY of the latest quarter that has an entry
\* in the YoY series
LatestYoyOfLatestEntry ==
    (pc = "calc_quarterly_yoy" /\ result.value.yoy_series # << >>) =>
        /\ result.value.latest_quarter =
               Max(DictKeys(result.value.yoy_series))
        /\ result.value.latest_yoy =
               DictGet(result.value.yoy_series, result.value.latest_quarter)

\* the most recent quarter has no YoY and an older quarter's YoY is returned
LatestYoyOfOlderQuarter ==
    /\ pc = "calc_quarterly_yoy"
    /\ q_data # << >>
    /\ ~DictHas(result.value.yoy_series, MostRecentQuarter)
    /\ notna(result.value.latest_yoy)
    /\ result.value.latest_quarter < MostRecentQuarter

-----------------------------------------------------------------------------
(* Dividends: analyze_one_stock on dividend rows in any row order          *)
(* (SpecDividend).                                                         *)

\* number of year ends that may carry a dividend
NumDivYears == 3

DivYears == {(2020 + i) * 10000 + 1231 : i \in 1..NumDivYears}

\* the year ends and one later half-year date, which is not annual
DivDates == DivYears \cup {(2020 + NumDivYears + 1) * 10000 + 630}

DivValues == {Num(1), Num(2)}

\* the rows of table t in the order perm
Reordered(t, perm) == [i \in DOMAIN t |-> t[perm[i]]]

InitDividend ==
    /\ pc = "start"
    /\ \E f \in PartialFns(DivDates, DivValues) :
          LET rows == AccountRows(Ticker, "DPS", <<"dps">>, f)
          IN  \E perm \in Permutations(DOMAIN rows) :
                  ind_grp = Reordered(rows, perm)
    /\ ind_df = ind_grp
    /\ fs_df = NoTable
    /\ fs_grp = NoTable
    /\ series_dict = << >>
    /\ q_data = NoTable
    /\ daily = NoTable
    /\ shares_df = NoTable
    /\ full_df = NoTable
    /\ stored_df = NoTable
    /\ InitStores
    /\ result = [fn |-> "none"]

NextDividend == AnalyzeOneStock

SpecDividend == InitDividend /\ [][NextDividend]_vars

\* the annual dates that carry a dividend in the indicator table
DividendYears ==
    {ind_grp[i].date : i \in {j \in DOMAIN ind_grp :
                                 /\ ind_grp[j].group = "DPS"
                                 /\ IsAnnualDate(ind_grp[j].date)
                                 /\ notna(ind_grp[j].value)}}

\* the dividend the table holds at date d
DividendAt(d) ==
    ind_grp[CHOOSE i \in DOMAIN ind_grp :
                ind_grp[i].group = "DPS" /\ ind_grp[i].date = d].value

\* C27: the latest dividend per share that analyze_one_stock reports is the
\* value at the latest annual date of the dividend series, in whatever
\* order the dividend rows stand in the table.
C27_LatestDividendAtLatestYear ==
    (pc = "analyze_one_stock" /\ DividendYears # {}) =>
        result.value.DPS_latest = DividendAt(Max(DividendYears))

\* what the code reports: the dividend of the last annual row of the table
LatestDividendOfLastRow ==
    (pc = "analyze_one_stock" /\ DividendYears # {}) =>
        LET annual == SelectSeq(ind_grp, LAMBDA r : IsAnnualDate(r.date))
        IN  result.value.DPS_latest = annual[Len(annual)].value

\* the rows stand latest year first and the dividend of the oldest year is
\* reported as the latest
LatestDividendOfOldestYear ==
    /\ pc = "analyze_one_stock"
    /\ Cardinality(DividendYears) >= 2
    /\ ind_grp[1].date = Max(DividendYears)
    /\ result.value.DPS_latest # DividendAt(Max(DividendYears))

-----------------------------------------------------------------------------
(* Claim about the dilution component F7 (SpecFScore).                     *)

\* the share-count snapshots of ticker code, oldest first
SnapshotsOf(code) ==
    sort_values_date(SelectSeq(shares_df, LAMBDA r : r.code = code))

\* x <= y of floats: false when either is undefined
FloatLeq(x, y) == notna(x) /\ notna(y) /\ x.v <= y.v

\* the ticker has two snapshots or more and its most recent issued-share
\* count is not above the previous one
NotDiluted(code) ==
    LET s == SnapshotsOf(code)
    IN  Len(s) >= 2 /\ FloatLeq(s[Len(s)].issued, s[Len(s) - 1].issued)

\* C28: in the table calc_valuation returns, F7 is 1 exactly for the
\* tickers with at least two share-count snapshots whose most recent
\* issued-share count is <= the previous one, F7 is 0 for a ticker with
\* fewer than two snapshots, and the quality score of every row is the sum
\* of the nine components with that F7.
C28_F7OfLastTwoSnapshots ==
    pc = "calc_valuation" =>
        \A i \in DOMAIN result.value :
            LET r == result.value[i]
            IN  /\ r.F7 = (IF NotDiluted(r.code) THEN 1 ELSE 0)
                /\ Len(SnapshotsOf(r.code)) < 2 => r.F7 = 0
                /\ r.F_score = SumSeq(Components(r))

\* what the code computes: the comparison counts only when the previous
\* count is positive
F7OfPositivePreviousCount ==
    pc = "calc_valuation" =>
        \A i \in DOMAIN result.value :
            LET r == result.value[i]
                s == SnapshotsOf(r.code)
            IN  /\ r.F7 = (IF /\ NotDiluted(r.code)
                              /\ s[Len(s) - 1].issued.v > 0 THEN 1 ELSE 0)
                /\ r.F_score = SumSeq(Components(r))

\* both snapshots of the ticker hold a count of 0 and F7 stays 0
F7ZeroOnUnchangedZeroCount ==
    /\ pc = "calc_valuation"
    /\ Len(shares_df) = 2
    /\ shares_df[1].issued = Num(0)
    /\ shares_df[2].issued = Num(0)
    /\ NotDiluted(Ticker)
    /\ result.value[1].F7 = 0

-----------------------------------------------------------------------------
(* The dashboard's screen filter (webapp/app.py, SpecFilter).              *)

\* the six screens by the names the dashboard gives them
ScreenNames ==
    {"screened", "momentum", "garp", "cashcow", "turnaround", "dividend_growth"}

\* lines 332-410 of webapp/app.py: the rows of df that the screen keeps
_apply_screen_filter(df, name) ==
    LET zero == Rat(0, 1)
        cap500 == Rat(500, 1)
        cap300 == Rat(300, 1)
        \* if "PER_이상" in df.columns: mask = mask & (df["PER_이상"] == "")
        PerFlagOk(r) == "PER_flag" \in DOMAIN r => r.PER_flag = ""
        screened(r) ==
            /\ notna(r.TTM_ni) /\ FGT(r.TTM_ni, zero)
            /\ FGE(r.ROE, Rat(5, 1))
            /\ Between(r.PER, Rat(1, 1), Rat(50, 1))
            /\ Between(r.PBR, Rat(1, 10), Rat(10, 1))
            /\ r.rev_consec >= 2
            /\ r.ni_consec >= 1
            /\ FGE(r.mktcap, cap500)
            /\ r.F_score >= 5
            /\ PerFlagOk(r)
        momentum(r) ==
            /\ notna(r.rev_CAGR) /\ notna(r.op_CAGR)
            /\ (FGE(r.rev_CAGR, Rat(15, 1)) \/ FGE(r.op_CAGR, Rat(15, 1)))
            /\ r.margin_improved = 1
            /\ FGE(r.ROE, Rat(5, 1))
            /\ FGT(r.TTM_ni, zero)
            /\ FGE(r.mktcap, cap500)
        garp(r) ==
            /\ notna(r.PEG) /\ FGT(r.PEG, zero) /\ FLT(r.PEG, Rat(3, 2))
            /\ notna(r.rev_CAGR) /\ FGE(r.rev_CAGR, Rat(10, 1))
            /\ notna(r.ROE) /\ FGE(r.ROE, Rat(12, 1))
            /\ notna(r.PER) /\ Between(r.PER, Rat(5, 1), Rat(30, 1))
            /\ FGE(r.mktcap, cap500)
            /\ FGT(r.TTM_ni, zero)
            /\ PerFlagOk(r)
        cashcow(r) ==
            /\ notna(r.ROE) /\ FGE(r.ROE, Rat(10, 1))
            /\ notna(r.opm) /\ FGE(r.opm, Rat(10, 1))
            /\ \/ notna(r.debt_ratio) /\ FLT(r.debt_ratio, Rat(100, 1))
               \/ isna(r.debt_ratio)
            /\ r.rev_consec >= 1
            /\ FGE(r.mktcap, cap500)
            /\ FGT(r.TTM_ni, zero)
            /\ r.quality_ok = 1
            /\ r.F_score >= 6
        turnaround(r) ==
            /\ (r.turnaround = 1 \/ r.margin_sharp = 1)
            /\ FGT(r.TTM_ni, zero)
            /\ FGE(r.mktcap, cap300)
        dividend_growth(r) ==
            /\ r.ni_consec >= 2
            /\ r.DPS_consec >= 1
            /\ notna(r.DPS_CAGR) /\ FGT(r.DPS_CAGR, zero)
            /\ notna(r.ROE) /\ FGE(r.ROE, Rat(5, 1))
            /\ FGT(r.div_yield, zero)
            /\ FGE(r.mktcap, cap300)
            /\ FGT(r.TTM_ni, zero)
            /\ r.div_earnings_growth = 1
    IN  CASE name = "screened" -> SelectSeq(df, screened)
          [] name = "momentum" -> SelectSeq(df, momentum)
          [] name = "garp" -> SelectSeq(df, garp)
          [] name = "cashcow" -> SelectSeq(df, cashcow)
          [] name = "turnaround" -> SelectSeq(df, turnaround)
          [] name = "dividend_growth" -> SelectSeq(df, dividend_growth)
          [] OTHER -> df

\* the table t without column c
WithoutColumn(t, c) ==
    [i \in DOMAIN t |-> [n \in DOMAIN t[i] \ {c} |-> t[i][n]]]

\* the persisted tables: the scored tables, with or without the PER flag
PersistedTables ==
    ScoredTables \cup {WithoutColumn(t, "PER_flag") : t \in ScoredTables}

InitFilter ==
    /\ pc = "start"
    /\ series_dict = << >>
    /\ q_data = NoTable
    /\ ind_df = NoTable
    /\ fs_df = NoTable
    /\ ind_grp = NoTable
    /\ fs_grp = NoTable
    /\ daily = NoTable
    /\ shares_df = NoTable
    /\ full_df \in PersistedTables
    /\ stored_df = NoTable
    /\ InitStores
    /\ result = [fn |-> "none"]

\* the dashboard filters the persisted table by one screen
ApplyScreenFilter ==
    /\ pc = "start"
    /\ \E name \in ScreenNames :
          result' = [fn |-> "_apply_screen_filter", name |-> name,
                     rows |-> _apply_screen_filter(full_df, name)]
    /\ pc' = "_apply_screen_filter"
    /\ UNCHANGED inputs

NextFilter == ApplyScreenFilter

SpecFilter == InitFilter /\ [][NextFilter]_vars

\* the returns of the batch screener's screen of that name on table df
BatchScreen(name, df) ==
    CASE name = "screened" -> apply_screen(df)
      [] name = "momentum" -> apply_momentum_screen(df)
      [] name = "garp" -> apply_garp_screen(df)
      [] name = "cashcow" -> apply_cashcow_screen(df)
      [] name = "turnaround" -> apply_turnaround_screen(df)
      [] name = "dividend_growth" -> apply_dividend_growth_screen(df)

\* the tickers a return of the batch screen selects: none when it raised
BatchSelected(ret) == IF ret.raised # "" THEN {} ELSE CodesOf(ret.rows)

\* C29: for each of the six screens and every row of the persisted table,
\* _apply_screen_filter selects the row if and only if the batch screener's
\* apply_*_screen of the same screen selects it, also when the table has no
\* PER flag column.
C29_FilterSelectsAsBatchScreen ==
    pc = "_apply_screen_filter" =>
        \A ret \in BatchScreen(result.name, full_df) :
            CodesOf(result.rows) = BatchSelected(ret)

\* what holds: the two select the same rows whenever the batch screen
\* returns a table
FilterSelectsAsReturnedBatchScreen ==
    pc = "_apply_screen_filter" =>
        \A ret \in BatchScreen(result.name, full_df) :
            ret.raised = "" => CodesOf(result.rows) = CodesOf(ret.rows)

\* the table has no PER flag column: the dashboard selects a row with the
\* quality/value filter and apply_screen raises KeyError
FilterSelectsWhereBatchRaises ==
    /\ pc = "_apply_screen_filter"
    /\ result.name = "screened"
    /\ "PER_flag" \notin DOMAIN full_df[1]
    /\ result.rows # << >>
    /\ apply_screen(full_df) = {[raised |-> "KeyError"]}

-----------------------------------------------------------------------------
(* The scraping pipeline (pipeline.py, SpecPipeline).                      *)
(*                                                                         *)
(* session.pending holds what was added to the session and not committed,  *)
(* session.committed the rows in the database, session.batch_logs the      *)
(* stored batch-log row; batch_log is the BatchLog object in memory.       *)

\* number of listed stocks
NumStocks == 3

\* the listings fetch_all_listings may return: the listed codes in any order
StockLists ==
    UNION {{l \in [1..n -> {UniverseCodes[i] : i \in 1..NumStocks}] :
               \A i, j \in 1..n : i # j => l[i] # l[j]} : n \in 0..NumStocks}

\* models.py lines 120-131: a new BatchLog row
BatchLog == [status |-> "running", stocks_processed |-> 0, finished_at |-> FALSE]

ListingRow(code) == [kind |-> "stock", code |-> code]

PriceRow(code) == [kind |-> "price", code |-> code]

MetricRow(code) == [kind |-> "metric", code |-> code]

\* session.commit(): the pending rows and the batch-log object are stored
Commit(s, log) ==
    [pending |-> {}, committed |-> s.committed \cup s.pending, batch_logs |-> log]

\* session.rollback(): the pending rows are dropped
Rollback(s) == [s EXCEPT !.pending = {}]

InitPipeline ==
    /\ pc = "start"
    /\ series_dict = << >>
    /\ q_data = NoTable
    /\ ind_df = NoTable
    /\ fs_df = NoTable
    /\ ind_grp = NoTable
    /\ fs_grp = NoTable
    /\ daily = NoTable
    /\ shares_df = NoTable
    /\ full_df = NoTable
    /\ stored_df = NoTable
    /\ InitStores
    /\ result = [fn |-> "none"]

\* lines 117-125: the batch log is created and committed with its defaults
RunPipelineBegin ==
    /\ pc = "start"
    /\ batch_log' = BatchLog
    /\ session' = Commit(session, BatchLog)
    /\ result' = [fn |-> "run_pipeline", returns |-> << >>, raised |-> ""]
    /\ pc' = "sync_stock_listings"
    /\ UNCHANGED <<loaded, full_df, dashboard_result, stocks, success_count>>

\* lines 129-134: the listings are fetched, stored and committed
SyncStockListings ==
    /\ pc = "sync_stock_listings"
    /\ \E l \in StockLists :
          /\ stocks' = l
          /\ session' = Commit([session EXCEPT !.pending =
                                   {ListingRow(l[i]) : i \in DOMAIN l}],
                               session.batch_logs)
    /\ success_count' = 0
    /\ pc' = "process_stock"
    /\ UNCHANGED <<loaded, full_df, dashboard_result, batch_log, result>>

\* fetch_all_listings raises an Exception: lines 146-149
SyncStockListingsRaises ==
    /\ pc = "sync_stock_listings"
    /\ batch_log' = [batch_log EXCEPT !.status = "failed"]
    /\ result' = [result EXCEPT !.raised = "Exception"]
    /\ pc' = "finally"
    /\ UNCHANGED <<loaded, full_df, dashboard_result, session, stocks,
                   success_count>>

\* the stock the loop of line 136 is at
CurrentStock == stocks[Len(result.returns) + 1]

\* process_stock commits and returns True: lines 51-102 and 138-139
ProcessStockSucceeds ==
    /\ pc = "process_stock"
    /\ Len(result.returns) < Len(stocks)
    /\ session' = Commit([session EXCEPT !.pending =
                             {PriceRow(CurrentStock), MetricRow(CurrentStock)}],
                         session.batch_logs)
    /\ success_count' = success_count + 1
    /\ result' = [result EXCEPT !.returns = Append(@, TRUE)]
    /\ UNCHANGED <<pc, loaded, full_df, dashboard_result, batch_log, stocks>>

\* an Exception inside process_stock, before or after its price rows were
\* added: lines 104-107 roll back and return False
ProcessStockFails ==
    /\ pc = "process_stock"
    /\ Len(result.returns) < Len(stocks)
    /\ \E added \in SUBSET {PriceRow(CurrentStock)} :
          session' = Rollback([session EXCEPT !.pending = added])
    /\ result' = [result EXCEPT !.returns = Append(@, FALSE)]
    /\ UNCHANGED <<pc, loaded, full_df, dashboard_result, batch_log, stocks,
                   success_count>>

\* a KeyboardInterrupt or SystemExit inside process_stock or time.sleep:
\* neither "except Exception" catches it and control passes to line 151
Interrupted ==
    /\ pc = "process_stock"
    /\ Len(result.returns) < Len(stocks)
    /\ \E added \in SUBSET {PriceRow(CurrentStock)} :
          session' = [session EXCEPT !.pending = added]
    /\ result' = [result EXCEPT !.raised = "KeyboardInterrupt"]
    /\ pc' = "finally"
    /\ UNCHANGED <<loaded, full_df, dashboard_result, batch_log, stocks,
                   success_count>>

\* lines 142-144: the loop is over
LoopEnds ==
    /\ pc = "process_stock"
    /\ Len(result.returns) = Len(stocks)
    /\ batch_log' = [batch_log EXCEPT !.status = "success",
                                      !.stocks_processed = success_count]
    /\ pc' = "finally"
    /\ UNCHANGED <<loaded, full_df, dashboard_result, session, stocks,
                   success_count, result>>

\* lines 151-154
Finally ==
    /\ pc = "finally"
    /\ batch_log' = [batch_log EXCEPT !.finished_at = TRUE]
    /\ session' = Commit(session, batch_log')
    /\ pc' = "done"
    /\ UNCHANGED <<loaded, full_df, dashboard_result, stocks, success_count,
                   result>>

NextPipeline ==
    \/ RunPipelineBegin
    \/ SyncStockListings
    \/ SyncStockListingsRaises
    \/ ProcessStockSucceeds
    \/ ProcessStockFails
    \/ Interrupted
    \/ LoopEnds
    \/ Finally

SpecPipeline == InitPipeline /\ [][NextPipeline]_vars

\* the number of stocks for which process_stock returned True
ReturnedTrue == Cardinality({i \in DOMAIN result.returns : result.returns[i]})

\* the stored batch log of a finished run is closed
LogClosed ==
    /\ session.batch_logs.finished_at
    /\ session.batch_logs.status \in {"success", "failed"}

\* no row of a stock whose process_stock returned False is stored or pending
FailedStocksRolledBack ==
    \A i \in DOMAIN result.returns :
        ~result.returns[i] =>
            \A row \in session.committed \cup session.pending :
                row.kind = "stock" \/ row.code # stocks[i]

\* a successful run went through every stock and counted the True returns
SuccessCountsAll ==
    session.batch_logs.status = "success" =>
        /\ Len(result.returns) = Len(stocks)
        /\ session.batch_logs.stocks_processed = ReturnedTrue

\* C30: every run of run_pipeline ends with its stored batch log having
\* finished_at set and status success or failed, never running; a failure
\* inside process_stock rolls that stock's changes back and the remaining
\* stocks are still processed; on success stocks_processed is the number of
\* stocks for which process_stock returned True.
C30_RunEndsWithClosedLog ==
    /\ pc = "done" => LogClosed /\ SuccessCountsAll
    /\ pc \in {"process_stock", "finally", "done"} => FailedStocksRolledBack

\* what holds: the same for every run that no KeyboardInterrupt or
\* SystemExit ended
UninterruptedRunEndsWithClosedLog ==
    /\ (pc = "done" /\ result.raised # "KeyboardInterrupt") =>
           LogClosed /\ SuccessCountsAll
    /\ pc \in {"process_stock", "finally", "done"} => FailedStocksRolledBack

\* an interrupted run: finished_at is stored and the status is still running
InterruptedRunLeftRunning ==
    /\ pc = "done"
    /\ result.raised = "KeyboardInterrupt"
    /\ session.batch_logs.finished_at
    /\ session.batch_logs.status = "running"

\* a run in which one stock failed and a later one succeeded, closed as a
\* success with the count of the True returns
FailedStockThenSuccess ==
    /\ pc = "done"
    /\ session.batch_logs.status = "success"
    /\ \E i, j \in DOMAIN result.returns :
          i < j /\ ~result.returns[i] /\ result.returns[j]
    /\ session.batch_logs.stocks_processed = ReturnedTrue

=============================================================================
